---------------------------- MODULE Spec2Model ----------------------------
(***************************************************************************)
(* A model of the h263-rs decoder: the bit reader (parser/reader.rs), the  *)
(* picture / GOB / macroblock / block parsers, and the picture state       *)
(* machine (decoder/state.rs).                                             *)
(*                                                                         *)
(* A reader is a record [source, buffer, bits_read]: the bytes the byte    *)
(* source can still supply, the bytes already buffered (VecDeque<u8>), and *)
(* the bit cursor.  Every fallible function returns a record               *)
(* [err, val, rd]: err = "Ok" or the error's name, val the returned value, *)
(* rd the reader as the call left it.  Option<T> is <<>> (None) or <<v>>.  *)
(***************************************************************************)
EXTENDS Integers, Sequences, FiniteSets, TLC

VARIABLES
    decoder_options,    \* H263State.decoder_options
    last_picture,       \* H263State.last_picture      : Option<u16>
    reference_picture,  \* H263State.reference_picture : Option<u16>
    running_options,    \* H263State.running_options
    reference_states,   \* H263State.reference_states  : temporal reference -> picture
    source,             \* H263Reader.source: bytes the source can still supply
    buffer,             \* H263Reader.buffer
    bits_read,          \* H263Reader.bits_read
    fed,                \* how many deliveries the byte source has received
    in_force,           \* the options in force for the last picture decoded
    call                \* the last call made on the decoder or reader, and what it returned

vars == <<decoder_options, last_picture, reference_picture, running_options,
          reference_states, source, buffer, bits_read, fed, in_force, call>>

---------------------------------------------------------------------------
(* Results and options *)

None == <<>>
Some(v) == <<v>>

Ok(v, rd) == [err |-> "Ok", val |-> v, rd |-> rd]
Err(e, rd) == [err |-> e, val |-> 0, rd |-> rd]
IsErr(r) == r.err # "Ok"
IsOk(r) == r.err = "Ok"

Min(a, b) == IF a < b THEN a ELSE b
Max(a, b) == IF a > b THEN a ELSE b

Pow2(n) == 2 ^ n

\* let x = v; e: the one value of { e : x \in {v} }
Only(S) == CHOOSE v \in S : TRUE

\* x & mask for a mask of contiguous bits lo .. hi-1, shifted down to bit 0
Bits(x, lo, hi) == (x \div Pow2(lo)) % Pow2(hi - lo)
\* bit i of x
Bit(x, i) == (x \div Pow2(i)) % 2

---------------------------------------------------------------------------
(* parser/reader.rs: H263Reader *)

\* from_source
from_source(src) == [source |-> src, buffer |-> <<>>, bits_read |-> 0]

\* buffer_bytes: read_exact one byte at a time; the bytes read before the
\* source runs dry stay in the buffer, and the I/O error is returned.
buffer_bytes(rd, bytes_needed) ==
    LET got == Min(bytes_needed, Len(rd.source))
        rd2 == [rd EXCEPT !.buffer = rd.buffer \o SubSeq(rd.source, 1, got),
                          !.source = SubSeq(rd.source, got + 1, Len(rd.source))]
    IN IF got < bytes_needed THEN Err("Io", rd2) ELSE Ok(0, rd2)

needed_bytes_for_bits(rd, bits_needed) ==
    LET bits_available == Max(0, Len(rd.buffer) * 8 - rd.bits_read)
        bits_short == Max(0, bits_needed - bits_available)
    IN (bits_short \div 8) + (IF bits_short % 8 # 0 THEN 1 ELSE 0)

ensure_bits(rd, bits_needed) ==
    buffer_bytes(rd, needed_bytes_for_bits(rd, bits_needed))

\* (accum << k) | x for an accumulator of up to 32 bits whose low k bits are
\* free for x < 2^k.  A word of 2^31 or more is written as the same 32 bits
\* read as i32, that is word - 2^32.
shl_or(accum, k, x) ==
    IF accum >= Pow2(31 - k)
    THEN (accum - Pow2(31 - k) - Pow2(31 - k)) * Pow2(k) + x
    ELSE accum * Pow2(k) + x

\* The accumulation loop of peek_bits over buffer.iter().skip(bytes_read).
\* w is the width of the result type T.
RECURSIVE peek_loop(_, _, _, _, _, _)
peek_loop(buf, idx, bit_off, bits_needed, accum, w) ==
    IF idx > Len(buf) \/ bits_needed = 0 THEN accum
    ELSE LET byte == (buf[idx] * Pow2(bit_off)) % 256
             bits_in_byte == Max(0, 8 - bit_off)
             bits_to_shift_in == Min(bits_in_byte, bits_needed)
             shifted == IF 8 - bits_to_shift_in >= 8 THEN 0
                        ELSE byte \div Pow2(8 - bits_to_shift_in)
             next == IF bits_to_shift_in < w
                     THEN shl_or(accum, bits_to_shift_in, shifted)
                     ELSE shifted
         IN peek_loop(buf, idx + 1, 0, Max(0, bits_needed - bits_to_shift_in), next, w)

peek_bits(rd, w, bits_needed) ==
    IF Max(0, bits_needed - 1) >= w THEN Err("InternalDecoderError", rd)
    ELSE IF bits_needed = 0 THEN Ok(0, rd)
    ELSE Only({ IF IsErr(e) THEN e
                ELSE Ok(peek_loop(e.rd.buffer, (e.rd.bits_read \div 8) + 1,
                                  e.rd.bits_read % 8, bits_needed, 0, w), e.rd)
                : e \in {ensure_bits(rd, bits_needed)} })

skip_bits(rd, bits_to_skip) ==
    Only({ IF IsErr(e) THEN e
           ELSE Ok(0, [e.rd EXCEPT !.bits_read = e.rd.bits_read + bits_to_skip])
           : e \in {ensure_bits(rd, bits_to_skip)} })

\* Fault variant of read_bits: the cursor moves before the bits are copied.
read_bits_skip_first(rd, w, bits_needed) ==
    Only({ IF IsErr(s) THEN s
           ELSE Only({ IF IsErr(r) THEN r ELSE Ok(r.val, r.rd)
                       : r \in {peek_bits(s.rd, w, bits_needed)} })
           : s \in {skip_bits(rd, bits_needed)} })

read_bits(rd, w, bits_needed) ==
    Only({ IF IsErr(r) THEN r
           ELSE Only({ IF IsErr(s) THEN s ELSE Ok(r.val, s.rd)
                       : s \in {skip_bits(r.rd, bits_needed)} })
           : r \in {peek_bits(rd, w, bits_needed)} })

read_u8(rd) == read_bits(rd, 8, 8)

realignment_bits(rd) == (8 - (rd.bits_read % 8)) % 8

checkpoint(rd) == rd.bits_read

\* Fault variant of rollback: the cursor is left where it is.
rollback_keep(rd, cp) == Ok(0, rd)

rollback(rd, cp) ==
    IF cp > Len(rd.buffer) * 8 THEN Err("InternalDecoderError", rd)
    ELSE Ok(0, [rd EXCEPT !.bits_read = cp])

\* Fault variant of commit: the byte in reading is discarded as well.
commit_byte_in_reading(rd) ==
    [rd EXCEPT !.buffer = SubSeq(rd.buffer, ((rd.bits_read + 7) \div 8) + 1, Len(rd.buffer)),
               !.bits_read = 0]

commit(rd) ==
    [rd EXCEPT !.buffer = SubSeq(rd.buffer, (rd.bits_read \div 8) + 1, Len(rd.buffer)),
               !.bits_read = rd.bits_read % 8]

\* Fault variant of with_transaction: nothing is restored.
with_transaction_keep(rd, result) == result

\* with_transaction(f): rd is the reader on entry, result what f returned
\* (with the reader as f left it).
with_transaction(rd, result) ==
    IF IsErr(result)
    THEN Only({ IF IsErr(rb) THEN rb ELSE [result EXCEPT !.rd = rb.rd]
                : rb \in {rollback(result.rd, checkpoint(rd))} })
    ELSE result

\* Fault variant of with_transaction_union: Ok(None) keeps the advance.
with_transaction_union_err_only(rd, result) ==
    IF IsErr(result)
    THEN Only({ IF IsErr(rb) THEN rb ELSE [result EXCEPT !.rd = rb.rd]
                : rb \in {rollback(result.rd, checkpoint(rd))} })
    ELSE result

\* with_transaction_union(f): as with_transaction, and Ok(None) rolls back too.
with_transaction_union(rd, result) ==
    IF IsErr(result) \/ result.val = None
    THEN Only({ IF IsErr(rb) THEN rb ELSE [result EXCEPT !.rd = rb.rd]
                : rb \in {rollback(result.rd, checkpoint(rd))} })
    ELSE result

\* Fault variant of with_lookahead: the position f reached is kept.
with_lookahead_keep(rd, result) == result

\* with_lookahead(f): the position is restored whatever f returned.
with_lookahead(rd, result) ==
    Only({ IF IsErr(rb) THEN rb ELSE [result EXCEPT !.rd = rb.rd]
           : rb \in {rollback(result.rd, checkpoint(rd))} })

\* Fault variant of start_code_loop: the scan gives up after the first look.
start_code_loop_once(rd, in_error, max_skip_bits, skip, maybe_code) ==
    IF maybe_code = 1 THEN Ok(Some(skip), rd) ELSE Ok(None, rd)

\* The while loop of recognize_start_code.
RECURSIVE start_code_loop(_, _, _, _, _)
start_code_loop(rd, in_error, max_skip_bits, skip, maybe_code) ==
    IF maybe_code = 1 THEN Ok(Some(skip), rd)
    ELSE IF ~in_error /\ skip > max_skip_bits THEN Ok(None, rd)
    ELSE Only({ IF IsErr(s) THEN s
                ELSE Only({ IF IsErr(p) THEN p
                            ELSE start_code_loop(p.rd, in_error, max_skip_bits, skip + 1,
                                                 p.val)
                            : p \in {peek_bits(s.rd, 32, 17)} })
                : s \in {skip_bits(rd, 1)} })

recognize_start_code_f(rd, in_error) ==
    Only({ IF IsErr(p) THEN p
           ELSE start_code_loop(p.rd, in_error, realignment_bits(rd), 0, p.val)
           : p \in {peek_bits(rd, 32, 17)} })

recognize_start_code(rd, in_error) ==
    with_lookahead(rd, recognize_start_code_f(rd, in_error))

\* read_vlc: table is a sequence of entries <<"End", v>> or <<"Fork", zero, one>>
\* (indices from 0, as in the source); table.get(index) = None is the
\* internal decoder error.
RECURSIVE read_vlc_loop(_, _, _)
read_vlc_loop(rd, table, index) ==
    IF index < 0 \/ index >= Len(table) THEN Err("InternalDecoderError", rd)
    ELSE IF table[index + 1][1] = "End" THEN Ok(table[index + 1][2], rd)
    ELSE Only({ IF IsErr(b) THEN b
                ELSE read_vlc_loop(b.rd, table,
                                   IF b.val = 0 THEN table[index + 1][2]
                                   ELSE table[index + 1][3])
                : b \in {read_bits(rd, 8, 1)} })

read_vlc(rd, table) == read_vlc_loop(rd, table, 0)

\* read_umv: the value is in half-pel units (HalfPel::from_unit).
RECURSIVE read_umv_loop(_, _, _)
read_umv_loop(rd, mantissa, bulk) ==
    IF bulk >= 4096 THEN Err("InvalidMVD", rd)
    ELSE Only({ IF IsErr(b) THEN b
                ELSE IF b.val = 0 THEN Ok(mantissa + bulk, b.rd)
                ELSE IF b.val = 2 THEN Ok(-(mantissa + bulk), b.rd)
                ELSE IF b.val = 1 THEN read_umv_loop(b.rd, mantissa * 2, bulk * 2)
                ELSE read_umv_loop(b.rd, mantissa * 2 + 1, bulk * 2)
                : b \in {read_bits(rd, 8, 2)} })

read_umv(rd) ==
    Only({ IF IsErr(start) THEN start
           ELSE IF start.val = 1 THEN Ok(0, start.rd)
           ELSE read_umv_loop(start.rd, 0, 1)
           : start \in {read_bits(rd, 8, 1)} })

---------------------------------------------------------------------------
(* parser/picture.rs *)

SORENSON_SPARK_BITSTREAM == "SORENSON_SPARK_BITSTREAM"
USE_SCALABILITY_MODE == "USE_SCALABILITY_MODE"

\* types.rs: the options an OPPTYPE record sets, and those of MPPTYPE
OPPTYPE_OPTIONS ==
    {"UnrestrictedMotionVectors", "SyntaxBasedArithmeticCoding", "AdvancedPrediction",
     "AdvancedIntraCoding", "DeblockingFilter", "SliceStructured",
     "ReferencePictureSelection", "IndependentSegmentDecoding", "AlternativeInterVLC",
     "ModifiedQuantization"}

MPPTYPE_OPTIONS ==
    {"ReferencePictureResampling", "ReducedResolutionUpdate", "RoundingTypeOne"}

\* options |= flag when the bit is set
Flag(x, i, name) == IF Bit(x, i) = 1 THEN {name} ELSE {}

\* PictureTypeCode::Reserved(r)
Reserved(r) == CASE r = 3 -> "Reserved(3)" [] r = 6 -> "Reserved(6)" [] OTHER -> "Reserved(7)"

decode_ptype_f(rd) ==
    Only({ IF IsErr(h) THEN h
           ELSE LET high == h.val
                    options == Flag(high, 5, "UseSplitScreen")
                               \cup Flag(high, 4, "UseDocumentCamera")
                               \cup Flag(high, 3, "ReleaseFullPictureFreeze")
                    fmt == high % 8
                    source_format ==
                        CASE fmt = 1 -> <<"SubQCIF">> [] fmt = 2 -> <<"QuarterCIF">>
                          [] fmt = 3 -> <<"FullCIF">> [] fmt = 4 -> <<"FourCIF">>
                          [] fmt = 5 -> <<"SixteenCIF">> [] OTHER -> <<"Reserved">>
                IN IF Bits(high, 6, 8) # 2 THEN Err("InvalidBitstream", h.rd)
                   ELSE IF fmt = 0 THEN Err("InvalidBitstream", h.rd)
                   ELSE IF fmt = 7
                   THEN Ok([options |-> options, format_and_type |-> None], h.rd)
                   ELSE Only({ IF IsErr(l) THEN l
                               ELSE Ok([options |->
                                            options
                                            \cup Flag(l.val, 3, "UnrestrictedMotionVectors")
                                            \cup Flag(l.val, 2, "SyntaxBasedArithmeticCoding")
                                            \cup Flag(l.val, 1, "AdvancedPrediction"),
                                        format_and_type |->
                                            Some(<<source_format,
                                                   IF Bit(l.val, 0) = 1 THEN "PBFrame"
                                                   ELSE IF Bit(l.val, 4) = 1 THEN "IFrame"
                                                   ELSE "PFrame">>)], l.rd)
                               : l \in {read_bits(h.rd, 8, 5)} })
           : h \in {read_u8(rd)} })

decode_ptype(rd) == with_transaction(rd, decode_ptype_f(rd))

decode_plusptype_f(rd, decoder_options_, previous_picture_options) ==
    Only({ IF IsErr(u) THEN u
           ELSE IF u.val > 1 THEN Err("InvalidBitstream", u.rd)
           ELSE Only({
               LET has_opptype == (u.val = 1)
                   opptype == o.val
                   fmt == Bits(opptype, 15, 18)
                   source_format ==
                       IF ~has_opptype THEN None
                       ELSE CASE fmt = 0 -> Some(<<"Reserved">>)
                              [] fmt = 1 -> Some(<<"SubQCIF">>)
                              [] fmt = 2 -> Some(<<"QuarterCIF">>)
                              [] fmt = 3 -> Some(<<"FullCIF">>)
                              [] fmt = 4 -> Some(<<"FourCIF">>)
                              [] fmt = 5 -> Some(<<"SixteenCIF">>)
                              [] fmt = 6 -> None [] OTHER -> Some(<<"Reserved">>)
                   opt_options ==
                       IF has_opptype
                       THEN Flag(opptype, 13, "UnrestrictedMotionVectors")
                            \cup Flag(opptype, 12, "SyntaxBasedArithmeticCoding")
                            \cup Flag(opptype, 11, "AdvancedPrediction")
                            \cup Flag(opptype, 10, "AdvancedIntraCoding")
                            \cup Flag(opptype, 9, "DeblockingFilter")
                            \cup Flag(opptype, 8, "SliceStructured")
                            \cup Flag(opptype, 7, "ReferencePictureSelection")
                            \cup Flag(opptype, 6, "IndependentSegmentDecoding")
                            \cup Flag(opptype, 5, "AlternativeInterVLC")
                            \cup Flag(opptype, 4, "ModifiedQuantization")
                       ELSE previous_picture_options \cap OPPTYPE_OPTIONS
                   followers ==
                       IF has_opptype
                       THEN (IF fmt = 6 THEN {"HasCustomFormat"} ELSE {})
                            \cup Flag(opptype, 14, "HasCustomClock")
                            \cup Flag(opptype, 13, "HasMotionVectorRange")
                            \cup Flag(opptype, 8, "HasSliceStructuredSubmode")
                            \cup Flag(opptype, 7, "HasReferencePictureSelectionMode")
                            \cup (IF USE_SCALABILITY_MODE \in decoder_options_
                                  THEN {"HasReferenceLayerNumber"} ELSE {})
                       ELSE {}
               IN IF IsErr(o) THEN o
                  ELSE IF has_opptype /\ opptype % 16 # 8 THEN Err("InvalidBitstream", o.rd)
                  ELSE Only({
                      LET mpptype == m.val
                          t == Bits(mpptype, 6, 9)
                          picture_type ==
                              CASE t = 0 -> "IFrame" [] t = 1 -> "PFrame"
                                [] t = 2 -> "ImprovedPBFrame" [] t = 3 -> "BFrame"
                                [] t = 4 -> "EIFrame" [] t = 5 -> "EPFrame"
                                [] OTHER -> Reserved(t)
                      IN IF IsErr(m) THEN m
                         ELSE IF mpptype % 8 # 1 THEN Err("InvalidBitstream", m.rd)
                         ELSE Ok([options |->
                                      opt_options
                                      \cup Flag(mpptype, 5, "ReferencePictureResampling")
                                      \cup Flag(mpptype, 4, "ReducedResolutionUpdate")
                                      \cup Flag(mpptype, 3, "RoundingTypeOne"),
                                  source_format |-> source_format,
                                  picture_type |-> picture_type, followers |-> followers,
                                  has_opptype |-> has_opptype], m.rd)
                      : m \in {read_bits(o.rd, 16, 9)} })
               : o \in {IF u.val = 1 THEN read_bits(u.rd, 32, 18) ELSE Ok(0, u.rd)} })
           : u \in {read_bits(rd, 8, 3)} })

decode_plusptype(rd, decoder_options_, previous_picture_options) ==
    with_transaction(rd, decode_plusptype_f(rd, decoder_options_, previous_picture_options))

\* SourceFormat::Extended(CustomPictureFormat {..})
Extended(par, w, h) == <<"Extended", par, w, h>>

decode_sorenson_ptype_f(rd) ==
    Only({ IF IsErr(f) THEN f
           ELSE Only({ IF IsErr(cw) THEN cw
               ELSE Only({ IF IsErr(ch) THEN ch
                   ELSE Only({ IF IsErr(t) THEN t
                       ELSE Ok([source_format |->
                                    CASE f.val \in {0, 1} ->
                                             Extended(<<"Square">>, cw.val, ch.val)
                                      [] f.val = 2 -> <<"FullCIF">>
                                      [] f.val = 3 -> <<"QuarterCIF">>
                                      [] f.val = 4 -> <<"SubQCIF">>
                                      [] f.val = 5 -> Extended(<<"Square">>, 320, 240)
                                      [] f.val = 6 -> Extended(<<"Square">>, 160, 120)
                                      [] OTHER -> <<"Reserved">>,
                                picture_type |->
                                    CASE t.val = 0 -> "IFrame" [] t.val = 1 -> "PFrame"
                                      [] t.val = 2 -> "DisposablePFrame"
                                      [] OTHER -> Reserved(t.val),
                                options |-> {"UseDeblocker"}], t.rd)
                       : t \in {read_bits(ch.rd, 8, 2)} })
                   : ch \in {IF f.val = 0 THEN read_bits(cw.rd, 16, 8)
                             ELSE IF f.val = 1 THEN read_bits(cw.rd, 16, 16)
                             ELSE Ok(0, cw.rd)} })
               : cw \in {IF f.val = 0 THEN read_bits(f.rd, 16, 8)
                         ELSE IF f.val = 1 THEN read_bits(f.rd, 16, 16)
                         ELSE Ok(0, f.rd)} })
           : f \in {read_bits(rd, 32, 3)} })

decode_sorenson_ptype(rd) == with_transaction(rd, decode_sorenson_ptype_f(rd))

decode_cpm_and_psbi_f(rd) ==
    Only({ IF IsErr(c) THEN c
           ELSE IF c.val # 0
           THEN Only({ IF IsErr(p) THEN p ELSE Ok(Some(p.val), p.rd)
                       : p \in {read_bits(c.rd, 8, 2)} })
           ELSE Ok(None, c.rd)
           : c \in {read_bits(rd, 8, 1)} })

decode_cpm_and_psbi(rd) == with_transaction(rd, decode_cpm_and_psbi_f(rd))

decode_cpfmt_f(rd) ==
    Only({ IF IsErr(c) THEN c
           ELSE IF Bit(c.val, 9) = 0 THEN Err("InvalidBitstream", c.rd)
           ELSE IF Bits(c.val, 19, 23) = 0 THEN Err("InvalidBitstream", c.rd)
           ELSE Only({ IF IsErr(pw) THEN pw
               ELSE Only({
                   LET par == Bits(c.val, 19, 23)
                       pixel_aspect_ratio ==
                           CASE par = 1 -> <<"Square">> [] par = 2 -> <<"Par12_11">>
                             [] par = 3 -> <<"Par10_11">> [] par = 4 -> <<"Par16_11">>
                             [] par = 5 -> <<"Par40_33">>
                             [] par = 15 -> <<"Extended", pw.val, ph.val>>
                             [] OTHER -> <<"Reserved", par>>
                   IN IF IsErr(ph) THEN ph
                      ELSE IF par = 15 /\ (pw.val = 0 \/ ph.val = 0)
                      THEN Err("InvalidBitstream", ph.rd)
                      ELSE Ok(Extended(pixel_aspect_ratio, (Bits(c.val, 10, 19) + 1) * 4,
                                       Bits(c.val, 0, 8) * 4), ph.rd)
                   : ph \in {IF Bits(c.val, 19, 23) = 15 THEN read_u8(pw.rd)
                             ELSE Ok(0, pw.rd)} })
               : pw \in {IF Bits(c.val, 19, 23) = 15 THEN read_u8(c.rd) ELSE Ok(0, c.rd)} })
           : c \in {read_bits(rd, 32, 23)} })

decode_cpfmt(rd) == with_transaction(rd, decode_cpfmt_f(rd))

decode_cpcfc_f(rd) ==
    Only({ IF IsErr(c) THEN c
           ELSE Ok([times_1001 |-> Bit(c.val, 7) # 0, divisor |-> c.val % 128], c.rd)
           : c \in {read_u8(rd)} })

decode_cpcfc(rd) == with_transaction(rd, decode_cpcfc_f(rd))

decode_uui_f(rd) ==
    Only({ IF IsErr(a) THEN a
           ELSE IF a.val = 1 THEN Ok("Standard", a.rd)
           ELSE Only({ IF IsErr(b) THEN b
                       ELSE IF b.val = 1 THEN Ok("Unlimited", b.rd)
                       ELSE Err("InvalidBitstream", b.rd)
                       : b \in {read_bits(a.rd, 8, 1)} })
           : a \in {read_bits(rd, 8, 1)} })

decode_uui(rd) == with_transaction(rd, decode_uui_f(rd))

decode_sss_f(rd) ==
    Only({ IF IsErr(s) THEN s
           ELSE Ok(Flag(s.val, 0, "RectangularSlices") \cup Flag(s.val, 1, "ArbitraryOrder"),
                   s.rd)
           : s \in {read_bits(rd, 8, 2)} })

decode_sss(rd) == with_transaction(rd, decode_sss_f(rd))

decode_elnum_rlnum_f(rd, followers) ==
    Only({ IF IsErr(e) THEN e
           ELSE IF "HasReferenceLayerNumber" \in followers
           THEN Only({ IF IsErr(r) THEN r
                       ELSE Ok([enhancement |-> e.val, reference |-> Some(r.val)], r.rd)
                       : r \in {read_bits(e.rd, 8, 4)} })
           ELSE Ok([enhancement |-> e.val, reference |-> None], e.rd)
           : e \in {read_bits(rd, 8, 4)} })

decode_elnum_rlnum(rd, followers) == with_transaction(rd, decode_elnum_rlnum_f(rd, followers))

decode_rpsmf_f(rd) ==
    Only({ IF IsErr(b) THEN b
           ELSE Ok((IF Bit(b.val, 2) = 0 THEN {"Reserved"} ELSE {})
                   \cup Flag(b.val, 1, "RequestNegativeAcknowledgement")
                   \cup Flag(b.val, 0, "RequestAcknowledgement"), b.rd)
           : b \in {read_bits(rd, 8, 3)} })

decode_rpsmf(rd) == with_transaction(rd, decode_rpsmf_f(rd))

decode_trpi_f(rd) ==
    Only({ IF IsErr(i) THEN i
           ELSE IF i.val = 1
           THEN Only({ IF IsErr(t) THEN t ELSE Ok(Some(t.val), t.rd)
                       : t \in {read_bits(i.rd, 16, 10)} })
           ELSE Ok(None, i.rd)
           : i \in {read_bits(rd, 8, 1)} })

decode_trpi(rd) == with_transaction(rd, decode_trpi_f(rd))

decode_bcm_f(rd) ==
    Only({ IF IsErr(bci) THEN bci
           ELSE IF bci.val = 1 THEN Err("UnimplementedDecoding", bci.rd)
           ELSE Only({ IF IsErr(not_bci) THEN not_bci
                       ELSE IF not_bci.val = 1 THEN Ok(None, not_bci.rd)
                       ELSE Err("InvalidBitstream", not_bci.rd)
                       : not_bci \in {read_bits(bci.rd, 8, 1)} })
           : bci \in {read_bits(rd, 8, 1)} })

decode_bcm(rd) == with_transaction(rd, decode_bcm_f(rd))

decode_rprp(rd) == with_transaction(rd, Err("UnimplementedDecoding", rd))

decode_trb_f(rd, has_custom_pclk) ==
    IF has_custom_pclk THEN read_bits(rd, 8, 5) ELSE read_bits(rd, 8, 3)

decode_trb(rd, has_custom_pclk) == with_transaction(rd, decode_trb_f(rd, has_custom_pclk))

decode_dbquant_f(rd) ==
    Only({ IF IsErr(q) THEN q
           ELSE Ok(CASE q.val = 0 -> "FiveFourths" [] q.val = 1 -> "SixFourths"
                     [] q.val = 2 -> "SevenFourths" [] OTHER -> "EightFourths", q.rd)
           : q \in {read_bits(rd, 8, 2)} })

decode_dbquant(rd) == with_transaction(rd, decode_dbquant_f(rd))

RECURSIVE decode_pei_loop(_, _)
decode_pei_loop(rd, data) ==
    Only({ IF IsErr(has_pei) THEN has_pei
           ELSE IF has_pei.val = 1
           THEN Only({ IF IsErr(byte) THEN byte
                       ELSE decode_pei_loop(byte.rd, Append(data, byte.val))
                       : byte \in {read_u8(has_pei.rd)} })
           ELSE Ok(data, has_pei.rd)
           : has_pei \in {read_bits(rd, 8, 1)} })

decode_pei(rd) == with_transaction(rd, decode_pei_loop(rd, <<>>))

\* The Sorenson Spark branch of decode_picture, after the version field.
decode_picture_sorenson(rd, gob_id) ==
    Only({ IF IsErr(tr) THEN tr ELSE
    Only({ IF IsErr(pt) THEN pt ELSE
    Only({ IF IsErr(quantizer) THEN quantizer ELSE
    Only({ IF IsErr(extra) THEN extra ELSE
        Ok(Some([version |-> Some(gob_id),
                 temporal_reference |-> tr.val,
                 format |-> Some(pt.val.source_format),
                 options |-> pt.val.options,
                 has_plusptype |-> FALSE,
                 has_opptype |-> FALSE,
                 picture_type |-> pt.val.picture_type,
                 quantizer |-> quantizer.val,
                 extra |-> extra.val,
                 motion_vector_range |-> Some("Unlimited"),
                 slice_submode |-> None,
                 scalability_layer |-> None,
                 reference_picture_selection_mode |-> None,
                 prediction_reference |-> None,
                 backchannel_message |-> None,
                 reference_picture_resampling |-> None,
                 multiplex_bitstream |-> None,
                 pb_reference |-> None,
                 pb_quantizer |-> None]), extra.rd)
    : extra \in {decode_pei(quantizer.rd)} })
    : quantizer \in {read_bits(pt.rd, 8, 5)} })
    : pt \in {decode_sorenson_ptype(tr.rd)} })
    : tr \in {read_u8(rd)} })

\* The standard H.263 branch of decode_picture, from the low TR byte on.
\* previous_picture is Option<Picture>.
decode_picture_h263(rd, decoder_options_, previous_picture) ==
    Only({ IF IsErr(low_tr) THEN low_tr ELSE
    Only({ IF IsErr(pty) THEN pty ELSE
    Only({ IF IsErr(plus) THEN plus ELSE
    Only({ IF IsErr(cpm1) THEN cpm1 ELSE
        LET has_plusptype == pty.val.format_and_type = None
            options == IF has_plusptype THEN pty.val.options \cup plus.val.options
                       ELSE pty.val.options
            format0 == IF has_plusptype THEN plus.val.source_format
                       ELSE Some(pty.val.format_and_type[1][1])
            picture_type == IF has_plusptype THEN plus.val.picture_type
                            ELSE pty.val.format_and_type[1][2]
            followers == IF has_plusptype THEN plus.val.followers ELSE {}
            has_opptype == IF has_plusptype THEN plus.val.has_opptype ELSE FALSE
            has_format == "HasCustomFormat" \in followers
            has_clock == "HasCustomClock" \in followers
            has_range == "HasMotionVectorRange" \in followers
            has_sss == "HasSliceStructuredSubmode" \in followers
            has_layer == USE_SCALABILITY_MODE \in decoder_options_
            has_rpsmf == "HasReferencePictureSelectionMode" \in followers
            has_rps == "ReferencePictureSelection" \in options
            is_pb == picture_type \in {"PBFrame", "ImprovedPBFrame"}
        IN
    Only({ IF IsErr(cpfmt) THEN cpfmt ELSE
    Only({ IF IsErr(cpcfc) THEN cpcfc ELSE
    Only({ IF IsErr(high_tr) THEN high_tr ELSE
    Only({ IF IsErr(uui) THEN uui ELSE
    Only({ IF IsErr(sss) THEN sss ELSE
    Only({ IF IsErr(layer) THEN layer ELSE
    Only({ IF IsErr(rpsmf) THEN rpsmf ELSE
    Only({ IF IsErr(trpi) THEN trpi ELSE
    Only({ IF IsErr(bcm) THEN bcm ELSE
        LET format == IF has_format THEN Some(cpfmt.val) ELSE format0
            has_rprp == "ReferencePictureResampling" \in options
                        \/ (previous_picture # None /\ previous_picture[1].format # format)
        IN
    Only({ IF IsErr(rprp) THEN rprp ELSE
    Only({ IF IsErr(quantizer) THEN quantizer ELSE
    Only({ IF IsErr(cpm2) THEN cpm2 ELSE
    Only({ IF IsErr(trb) THEN trb ELSE
    Only({ IF IsErr(dbquant) THEN dbquant ELSE
    Only({ IF IsErr(extra) THEN extra ELSE
        Ok(Some([version |-> None,
                 temporal_reference |-> high_tr.val * 256 + low_tr.val,
                 format |-> format,
                 options |-> options,
                 has_plusptype |-> has_plusptype,
                 has_opptype |-> has_opptype,
                 picture_type |-> picture_type,
                 quantizer |-> quantizer.val,
                 extra |-> extra.val,
                 motion_vector_range |-> IF has_range THEN Some(uui.val) ELSE None,
                 slice_submode |-> IF has_sss THEN Some(sss.val) ELSE None,
                 scalability_layer |-> IF has_layer THEN Some(layer.val) ELSE None,
                 reference_picture_selection_mode |->
                     IF has_rpsmf THEN Some(rpsmf.val) ELSE None,
                 prediction_reference |-> trpi.val,
                 backchannel_message |-> bcm.val,
                 reference_picture_resampling |-> rprp.val,
                 multiplex_bitstream |-> cpm2.val,
                 pb_reference |-> IF is_pb THEN Some(trb.val) ELSE None,
                 pb_quantizer |-> IF is_pb THEN Some(dbquant.val) ELSE None]), extra.rd)
    : extra \in {decode_pei(dbquant.rd)} })
    : dbquant \in {IF is_pb THEN decode_dbquant(trb.rd) ELSE Ok(None, trb.rd)} })
    : trb \in {IF is_pb THEN decode_trb(cpm2.rd, has_clock) ELSE Ok(None, cpm2.rd)} })
    : cpm2 \in {IF has_plusptype THEN Ok(cpm1.val, quantizer.rd)
                ELSE decode_cpm_and_psbi(quantizer.rd)} })
    : quantizer \in {read_bits(rprp.rd, 8, 5)} })
    : rprp \in {IF has_rprp THEN decode_rprp(bcm.rd) ELSE Ok(None, bcm.rd)} })
    : bcm \in {IF has_rps THEN decode_bcm(trpi.rd) ELSE Ok(None, trpi.rd)} })
    : trpi \in {IF has_rps THEN decode_trpi(rpsmf.rd) ELSE Ok(None, rpsmf.rd)} })
    : rpsmf \in {IF has_rpsmf THEN decode_rpsmf(layer.rd) ELSE Ok(None, layer.rd)} })
    : layer \in {IF has_layer THEN decode_elnum_rlnum(sss.rd, followers)
                 ELSE Ok(None, sss.rd)} })
    : sss \in {IF has_sss THEN decode_sss(uui.rd) ELSE Ok(None, uui.rd)} })
    : uui \in {IF has_range THEN decode_uui(high_tr.rd) ELSE Ok(None, high_tr.rd)} })
    : high_tr \in {IF has_clock THEN read_bits(cpcfc.rd, 16, 2) ELSE Ok(0, cpcfc.rd)} })
    : cpcfc \in {IF has_clock THEN decode_cpcfc(cpfmt.rd) ELSE Ok(None, cpfmt.rd)} })
    : cpfmt \in {IF has_format THEN decode_cpfmt(cpm1.rd) ELSE Ok(None, cpm1.rd)} })
    : cpm1 \in {IF pty.val.format_and_type = None THEN decode_cpm_and_psbi(plus.rd)
                ELSE Ok(None, plus.rd)} })
    : plus \in {IF pty.val.format_and_type = None
                THEN decode_plusptype(pty.rd, decoder_options_,
                         IF previous_picture = None THEN {}
                         ELSE previous_picture[1].options)
                ELSE Ok(None, pty.rd)} })
    : pty \in {decode_ptype(low_tr.rd)} })
    : low_tr \in {read_u8(rd)} })

\* Fault variant of decode_picture_f: a nonzero GOB number is not told apart
\* from a picture's.
decode_picture_f_any_gob(rd, decoder_options_, previous_picture) ==
    Only({ IF IsErr(sc) THEN sc
           ELSE IF sc.val = None THEN Err("InvalidBitstream", sc.rd) ELSE
    Only({ IF IsErr(sk) THEN sk ELSE
    Only({ IF IsErr(gob_id) THEN gob_id
           ELSE IF SORENSON_SPARK_BITSTREAM \in decoder_options_
           THEN decode_picture_sorenson(gob_id.rd, gob_id.val)
           ELSE decode_picture_h263(gob_id.rd, decoder_options_, previous_picture)
    : gob_id \in {read_bits(sk.rd, 8, 5)} })
    : sk \in {skip_bits(sc.rd, 17 + sc.val[1])} })
    : sc \in {recognize_start_code(rd, FALSE)} })

decode_picture_f(rd, decoder_options_, previous_picture) ==
    Only({ IF IsErr(sc) THEN sc
           ELSE IF sc.val = None THEN Err("InvalidBitstream", sc.rd) ELSE
    Only({ IF IsErr(sk) THEN sk ELSE
    Only({ IF IsErr(gob_id) THEN gob_id
           ELSE IF SORENSON_SPARK_BITSTREAM \in decoder_options_
           THEN decode_picture_sorenson(gob_id.rd, gob_id.val)
           ELSE IF gob_id.val # 0 THEN Ok(None, gob_id.rd)
           ELSE decode_picture_h263(gob_id.rd, decoder_options_, previous_picture)
    : gob_id \in {read_bits(sk.rd, 8, 5)} })
    : sk \in {skip_bits(sc.rd, 17 + sc.val[1])} })
    : sc \in {recognize_start_code(rd, FALSE)} })

decode_picture(rd, decoder_options_, previous_picture) ==
    with_transaction_union(rd, decode_picture_f(rd, decoder_options_, previous_picture))

---------------------------------------------------------------------------
(* parser/macroblock.rs *)

MCBPC_I_TABLE == <<
    <<"Fork", 2, 1>>, <<"End", <<"Valid", "Intra", FALSE, FALSE>>>>, <<"Fork", 6, 3>>,
    <<"Fork", 4, 5>>, <<"End", <<"Valid", "Intra", TRUE, FALSE>>>>,
    <<"End", <<"Valid", "Intra", TRUE, TRUE>>>>, <<"Fork", 8, 7>>,
    <<"End", <<"Valid", "Intra", FALSE, TRUE>>>>, <<"Fork", 10, 9>>,
    <<"End", <<"Valid", "IntraQ", FALSE, FALSE>>>>, <<"Fork", 14, 11>>, <<"Fork", 12, 13>>,
    <<"End", <<"Valid", "IntraQ", TRUE, FALSE>>>>, <<"End", <<"Valid", "IntraQ", TRUE, TRUE>>>>,
    <<"Fork", 16, 20>>, <<"End", <<"Invalid">>>>, <<"Fork", 17, 15>>, <<"Fork", 18, 15>>,
    <<"Fork", 15, 19>>, <<"End", <<"Stuffing">>>>, <<"End", <<"Valid", "IntraQ", FALSE, TRUE>>>>
>>

MCBPC_P_TABLE == <<
    <<"Fork", 2, 1>>, <<"End", <<"Valid", "Inter", FALSE, FALSE>>>>, <<"Fork", 6, 3>>,
    <<"Fork", 4, 5>>, <<"End", <<"Valid", "Inter4V", FALSE, FALSE>>>>,
    <<"End", <<"Valid", "InterQ", FALSE, FALSE>>>>, <<"Fork", 10, 7>>, <<"Fork", 8, 9>>,
    <<"End", <<"Valid", "Inter", TRUE, FALSE>>>>, <<"End", <<"Valid", "Inter", FALSE, TRUE>>>>,
    <<"Fork", 16, 11>>, <<"Fork", 13, 12>>, <<"End", <<"Valid", "Intra", FALSE, FALSE>>>>,
    <<"Fork", 14, 15>>, <<"End", <<"Valid", "IntraQ", FALSE, FALSE>>>>,
    <<"End", <<"Valid", "Inter", TRUE, TRUE>>>>, <<"Fork", 24, 17>>, <<"Fork", 18, 21>>,
    <<"Fork", 19, 20>>, <<"End", <<"Valid", "Inter4V", TRUE, FALSE>>>>,
    <<"End", <<"Valid", "Inter4V", FALSE, TRUE>>>>, <<"Fork", 22, 23>>,
    <<"End", <<"Valid", "InterQ", TRUE, FALSE>>>>, <<"End", <<"Valid", "InterQ", FALSE, TRUE>>>>,
    <<"Fork", 30, 25>>, <<"Fork", 27, 26>>, <<"End", <<"Valid", "Intra", TRUE, TRUE>>>>,
    <<"Fork", 28, 29>>, <<"End", <<"Valid", "Intra", FALSE, TRUE>>>>,
    <<"End", <<"Valid", "Inter4V", TRUE, TRUE>>>>, <<"Fork", 36, 31>>, <<"Fork", 33, 32>>,
    <<"End", <<"Valid", "Intra", TRUE, FALSE>>>>, <<"Fork", 34, 35>>,
    <<"End", <<"Valid", "IntraQ", FALSE, TRUE>>>>, <<"End", <<"Valid", "InterQ", TRUE, TRUE>>>>,
    <<"Fork", 40, 37>>, <<"Fork", 38, 39>>, <<"End", <<"Valid", "IntraQ", TRUE, TRUE>>>>,
    <<"End", <<"Valid", "IntraQ", TRUE, FALSE>>>>, <<"Fork", 42, 41>>, <<"End", <<"Stuffing">>>>,
    <<"Fork", 43, 44>>, <<"End", <<"Invalid">>>>, <<"Fork", 45, 46>>,
    <<"End", <<"Valid", "Inter4VQ", FALSE, FALSE>>>>, <<"Fork", 47, 50>>, <<"Fork", 48, 49>>,
    <<"End", <<"Valid", "Inter4VQ", FALSE, TRUE>>>>, <<"End", <<"Invalid">>>>, <<"Fork", 51, 52>>,
    <<"End", <<"Valid", "Inter4VQ", TRUE, FALSE>>>>, <<"End", <<"Valid", "Inter4VQ", TRUE, TRUE>>>>
>>

\* Fault variant of MODB_TABLE: the Fork at slot 2 leads back to the root.
MODB_TABLE_CYCLE == <<
    <<"Fork", 1, 2>>, <<"End", <<FALSE, FALSE>>>>, <<"Fork", 0, 4>>,
    <<"End", <<FALSE, TRUE>>>>, <<"End", <<TRUE, TRUE>>>>
>>

MODB_TABLE == <<
    <<"Fork", 1, 2>>, <<"End", <<FALSE, FALSE>>>>, <<"Fork", 3, 4>>, <<"End", <<FALSE, TRUE>>>>,
    <<"End", <<TRUE, TRUE>>>>
>>

CBPY_TABLE_INTRA == <<
    <<"Fork", 1, 24>>, <<"Fork", 2, 17>>, <<"Fork", 3, 12>>, <<"Fork", 4, 9>>, <<"Fork", 5, 6>>,
    <<"End", <<>>>>, <<"Fork", 7, 8>>, <<"End", <<<<FALSE, TRUE, TRUE, FALSE>>>>>>,
    <<"End", <<<<TRUE, FALSE, FALSE, TRUE>>>>>>, <<"Fork", 10, 11>>,
    <<"End", <<<<TRUE, FALSE, FALSE, FALSE>>>>>>, <<"End", <<<<FALSE, TRUE, FALSE, FALSE>>>>>>,
    <<"Fork", 13, 16>>, <<"Fork", 14, 15>>, <<"End", <<<<FALSE, FALSE, TRUE, FALSE>>>>>>,
    <<"End", <<<<FALSE, FALSE, FALSE, TRUE>>>>>>, <<"End", <<<<FALSE, FALSE, FALSE, FALSE>>>>>>,
    <<"Fork", 18, 21>>, <<"Fork", 19, 20>>, <<"End", <<<<TRUE, TRUE, FALSE, FALSE>>>>>>,
    <<"End", <<<<TRUE, FALSE, TRUE, FALSE>>>>>>, <<"Fork", 22, 23>>,
    <<"End", <<<<TRUE, TRUE, TRUE, FALSE>>>>>>, <<"End", <<<<FALSE, TRUE, FALSE, TRUE>>>>>>,
    <<"Fork", 25, 32>>, <<"Fork", 26, 29>>, <<"Fork", 27, 28>>,
    <<"End", <<<<TRUE, TRUE, FALSE, TRUE>>>>>>, <<"End", <<<<FALSE, FALSE, TRUE, TRUE>>>>>>,
    <<"Fork", 30, 31>>, <<"End", <<<<TRUE, FALSE, TRUE, TRUE>>>>>>,
    <<"End", <<<<FALSE, TRUE, TRUE, TRUE>>>>>>, <<"End", <<<<TRUE, TRUE, TRUE, TRUE>>>>>>
>>

MVD_TABLE == <<
    <<"Fork", 2, 1>>, <<"End", <<0>>>>, <<"Fork", 6, 3>>, <<"Fork", 4, 5>>, <<"End", <<1>>>>,
    <<"End", <<-1>>>>, <<"Fork", 10, 7>>, <<"Fork", 8, 9>>, <<"End", <<2>>>>, <<"End", <<-2>>>>,
    <<"Fork", 14, 11>>, <<"Fork", 12, 13>>, <<"End", <<3>>>>, <<"End", <<-3>>>>,
    <<"Fork", 26, 15>>, <<"Fork", 19, 16>>, <<"Fork", 17, 18>>, <<"End", <<4>>>>,
    <<"End", <<-4>>>>, <<"Fork", 23, 20>>, <<"Fork", 21, 22>>, <<"End", <<5>>>>, <<"End", <<-5>>>>,
    <<"Fork", 24, 25>>, <<"End", <<6>>>>, <<"End", <<-6>>>>, <<"Fork", 50, 27>>,
    <<"Fork", 31, 28>>, <<"Fork", 29, 30>>, <<"End", <<7>>>>, <<"End", <<-7>>>>,
    <<"Fork", 39, 32>>, <<"Fork", 36, 33>>, <<"Fork", 34, 35>>, <<"End", <<8>>>>,
    <<"End", <<-8>>>>, <<"Fork", 37, 38>>, <<"End", <<9>>>>, <<"End", <<-9>>>>, <<"Fork", 43, 40>>,
    <<"Fork", 41, 42>>, <<"End", <<10>>>>, <<"End", <<-10>>>>, <<"Fork", 47, 44>>,
    <<"Fork", 45, 46>>, <<"End", <<11>>>>, <<"End", <<-11>>>>, <<"Fork", 48, 49>>,
    <<"End", <<12>>>>, <<"End", <<-12>>>>, <<"Fork", 82, 51>>, <<"Fork", 67, 52>>,
    <<"Fork", 60, 53>>, <<"Fork", 57, 54>>, <<"Fork", 55, 56>>, <<"End", <<13>>>>,
    <<"End", <<-13>>>>, <<"Fork", 58, 59>>, <<"End", <<14>>>>, <<"End", <<-14>>>>,
    <<"Fork", 64, 61>>, <<"Fork", 62, 63>>, <<"End", <<15>>>>, <<"End", <<-15>>>>,
    <<"Fork", 65, 66>>, <<"End", <<16>>>>, <<"End", <<-16>>>>, <<"Fork", 75, 68>>,
    <<"Fork", 72, 69>>, <<"Fork", 70, 71>>, <<"End", <<17>>>>, <<"End", <<-17>>>>,
    <<"Fork", 73, 74>>, <<"End", <<18>>>>, <<"End", <<-18>>>>, <<"Fork", 79, 76>>,
    <<"Fork", 77, 78>>, <<"End", <<19>>>>, <<"End", <<-19>>>>, <<"Fork", 80, 81>>,
    <<"End", <<20>>>>, <<"End", <<-20>>>>, <<"Fork", 98, 83>>, <<"Fork", 91, 84>>,
    <<"Fork", 88, 85>>, <<"Fork", 86, 87>>, <<"End", <<21>>>>, <<"End", <<-21>>>>,
    <<"Fork", 89, 90>>, <<"End", <<22>>>>, <<"End", <<-22>>>>, <<"Fork", 95, 92>>,
    <<"Fork", 93, 94>>, <<"End", <<23>>>>, <<"End", <<-23>>>>, <<"Fork", 96, 97>>,
    <<"End", <<24>>>>, <<"End", <<-24>>>>, <<"Fork", 114, 99>>, <<"Fork", 107, 100>>,
    <<"Fork", 104, 101>>, <<"Fork", 102, 103>>, <<"End", <<25>>>>, <<"End", <<-25>>>>,
    <<"Fork", 105, 106>>, <<"End", <<26>>>>, <<"End", <<-26>>>>, <<"Fork", 111, 108>>,
    <<"Fork", 109, 110>>, <<"End", <<27>>>>, <<"End", <<-27>>>>, <<"Fork", 112, 113>>,
    <<"End", <<28>>>>, <<"End", <<-28>>>>, <<"Fork", 122, 115>>, <<"Fork", 119, 116>>,
    <<"Fork", 117, 118>>, <<"End", <<29>>>>, <<"End", <<-29>>>>, <<"Fork", 120, 121>>,
    <<"End", <<30>>>>, <<"End", <<-30>>>>, <<"Fork", 129, 123>>, <<"Fork", 127, 124>>,
    <<"Fork", 125, 126>>, <<"End", <<31>>>>, <<"End", <<-31>>>>, <<"Fork", 129, 128>>,
    <<"End", <<-32>>>>, <<"End", <<>>>>
>>

\* types.rs: MacroblockType
is_inter(mb_type) == mb_type \in {"Inter", "InterQ", "Inter4V", "Inter4VQ"}
is_intra(mb_type) == mb_type \in {"Intra", "IntraQ"}
has_fourvec(mb_type) == mb_type \in {"Inter4V", "Inter4VQ"}
has_quantizer(mb_type) == mb_type \in {"InterQ", "IntraQ", "Inter4VQ"}

\* types.rs: PictureTypeCode
is_any_pbframe(picture_type) == picture_type \in {"PBFrame", "ImprovedPBFrame"}
\* Fault variant of is_disposable: no picture type is disposable.
is_disposable_never(picture_type) == FALSE

is_disposable(picture_type) == picture_type = "DisposablePFrame"

\* n successive one-bit reads, each == 1
RECURSIVE read_flags(_, _, _)
read_flags(rd, n, acc) ==
    IF n = 0 THEN Ok(acc, rd)
    ELSE Only({ IF IsErr(b) THEN b ELSE read_flags(b.rd, n - 1, Append(acc, b.val = 1))
                : b \in {read_bits(rd, 8, 1)} })

decode_cbpb_f(rd) ==
    Only({ IF IsErr(c) THEN c
           ELSE Ok([codes_luma |-> SubSeq(c.val, 1, 4), codes_chroma_b |-> c.val[5],
                    codes_chroma_r |-> c.val[6]], c.rd)
           : c \in {read_flags(rd, 6, <<>>)} })

decode_cbpb(rd) == with_transaction(rd, decode_cbpb_f(rd))

decode_dquant_f(rd) ==
    Only({ IF IsErr(q) THEN q
           ELSE Ok(CASE q.val = 0 -> -1 [] q.val = 1 -> -2 [] q.val = 2 -> 1 [] OTHER -> 2,
                   q.rd)
           : q \in {read_bits(rd, 8, 2)} })

decode_dquant(rd) == with_transaction(rd, decode_dquant_f(rd))

\* A motion vector is <<x, y>> in half-pel units.
decode_motion_vector_f(rd, picture, running_options_) ==
    IF "UnrestrictedMotionVectors" \in running_options_ /\ picture.has_plusptype
    THEN Only({ IF IsErr(x) THEN x ELSE
         Only({ IF IsErr(y) THEN y ELSE Ok(<<x.val, y.val>>, y.rd)
         : y \in {read_umv(x.rd)} })
         : x \in {read_umv(rd)} })
    ELSE Only({ IF IsErr(x) THEN x
                ELSE IF x.val = None THEN Err("InvalidBitstream", x.rd) ELSE
         Only({ IF IsErr(y) THEN y
                ELSE IF y.val = None THEN Err("InvalidBitstream", y.rd)
                ELSE Ok(<<x.val[1], y.val[1]>>, y.rd)
         : y \in {read_vlc(x.rd, MVD_TABLE)} })
         : x \in {read_vlc(rd, MVD_TABLE)} })

decode_motion_vector(rd, picture, running_options_) ==
    with_transaction(rd, decode_motion_vector_f(rd, picture, running_options_))

\* n successive motion vectors
RECURSIVE decode_motion_vectors(_, _, _, _, _)
decode_motion_vectors(rd, picture, running_options_, n, acc) ==
    IF n = 0 THEN Ok(acc, rd)
    ELSE Only({ IF IsErr(mv) THEN mv
                ELSE decode_motion_vectors(mv.rd, picture, running_options_, n - 1,
                                           Append(acc, mv.val))
                : mv \in {decode_motion_vector(rd, picture, running_options_)} })

Not4(v) == <<~v[1], ~v[2], ~v[3], ~v[4]>>

\* The is_coded == 0 branch of decode_macroblock, from the MCBPC on.
decode_macroblock_coded(rd, picture, running_options_) ==
    IF picture.picture_type \notin {"IFrame", "PFrame"}
    THEN Err("UnimplementedDecoding", rd)
    ELSE
    Only({ IF IsErr(mcbpc) THEN mcbpc
           ELSE IF mcbpc.val[1] = "Stuffing" THEN Ok([kind |-> "Stuffing"], mcbpc.rd)
           ELSE IF mcbpc.val[1] = "Invalid" THEN Err("InvalidBitstream", mcbpc.rd) ELSE
    Only({ IF IsErr(modb) THEN modb ELSE
    Only({ IF IsErr(cbpy) THEN cbpy
           ELSE IF cbpy.val = None THEN Err("InvalidBitstream", cbpy.rd) ELSE
        LET mb_type == mcbpc.val[2]
            has_cbpb == modb.val[1]
            has_mvdb == modb.val[2]
            has_mv == is_inter(mb_type) \/ is_any_pbframe(picture.picture_type)
            has_addl == "AdvancedPrediction" \in running_options_ /\ has_fourvec(mb_type)
        IN
    Only({ IF IsErr(cbpb) THEN cbpb
           ELSE IF "ModifiedQuantization" \in running_options_
           THEN Err("UnimplementedDecoding", cbpb.rd) ELSE
    Only({ IF IsErr(dq) THEN dq ELSE
    Only({ IF IsErr(mv) THEN mv ELSE
    Only({ IF IsErr(addl) THEN addl ELSE
    Only({ IF IsErr(mvb) THEN mvb ELSE
        Ok([kind |-> "Coded", mb_type |-> mb_type,
            coded_block_pattern |->
                [codes_luma |-> IF is_intra(mb_type) THEN cbpy.val[1]
                                ELSE Not4(cbpy.val[1]),
                 codes_chroma_b |-> mcbpc.val[3],
                 codes_chroma_r |-> mcbpc.val[4]],
            coded_block_pattern_b |-> IF has_cbpb THEN Some(cbpb.val) ELSE None,
            d_quantizer |-> IF has_quantizer(mb_type) THEN Some(dq.val) ELSE None,
            motion_vector |-> IF has_mv THEN Some(mv.val) ELSE None,
            addl_motion_vectors |-> IF has_addl THEN Some(addl.val) ELSE None,
            motion_vectors_b |-> IF has_mvdb THEN Some(mvb.val) ELSE None], mvb.rd)
    : mvb \in {IF has_mvdb
               THEN decode_motion_vectors(addl.rd, picture, running_options_, 4, <<>>)
               ELSE Ok(None, addl.rd)} })
    : addl \in {IF has_addl
                THEN decode_motion_vectors(mv.rd, picture, running_options_, 3, <<>>)
                ELSE Ok(None, mv.rd)} })
    : mv \in {IF has_mv THEN decode_motion_vector(dq.rd, picture, running_options_)
              ELSE Ok(None, dq.rd)} })
    : dq \in {IF has_quantizer(mb_type) THEN decode_dquant(cbpb.rd)
              ELSE Ok(None, cbpb.rd)} })
    : cbpb \in {IF has_cbpb THEN decode_cbpb(cbpy.rd) ELSE Ok(None, cbpy.rd)} })
    : cbpy \in {read_vlc(modb.rd, CBPY_TABLE_INTRA)} })
    : modb \in {IF picture.picture_type = "PBFrame" THEN read_vlc(mcbpc.rd, MODB_TABLE)
                ELSE Ok(<<FALSE, FALSE>>, mcbpc.rd)} })
    : mcbpc \in {IF picture.picture_type = "IFrame" THEN read_vlc(rd, MCBPC_I_TABLE)
                 ELSE read_vlc(rd, MCBPC_P_TABLE)} })

decode_macroblock_f(rd, picture, running_options_) ==
    Only({ IF IsErr(cod) THEN cod
           ELSE IF cod.val = 0
           THEN decode_macroblock_coded(cod.rd, picture, running_options_)
           ELSE Ok([kind |-> "Uncoded"], cod.rd)
           : cod \in {IF picture.picture_type = "IFrame" THEN Ok(0, rd)
                      ELSE read_bits(rd, 8, 1)} })

decode_macroblock(rd, picture, running_options_) ==
    with_transaction(rd, decode_macroblock_f(rd, picture, running_options_))

---------------------------------------------------------------------------
(* parser/gob.rs *)

decode_gob_f(rd) ==
    Only({ IF IsErr(sc) THEN sc
           ELSE IF sc.val = None THEN Err("InvalidGOBHeader", sc.rd) ELSE
    Only({ IF IsErr(sk) THEN sk ELSE
    Only({ IF IsErr(gob_id) THEN gob_id
           ELSE IF gob_id.val = 0 \/ gob_id.val = 15 THEN Ok(None, gob_id.rd)
           ELSE Err("UnimplementedDecoding", gob_id.rd)
    : gob_id \in {read_bits(sk.rd, 8, 5)} })
    : sk \in {skip_bits(sc.rd, 17 + sc.val[1])} })
    : sc \in {recognize_start_code(rd, FALSE)} })

decode_gob(rd, decoder_options_) == with_transaction_union(rd, decode_gob_f(rd))

---------------------------------------------------------------------------
(* decoder/block.rs *)

TCOEF_TABLE == <<
    <<"Fork", 8, 1>>, <<"Fork", 2, 3>>, <<"End", <<<<"Run", FALSE, 0, 1>>>>>>, <<"Fork", 4, 5>>,
    <<"End", <<<<"Run", FALSE, 1, 1>>>>>>, <<"Fork", 6, 7>>, <<"End", <<<<"Run", FALSE, 2, 1>>>>>>,
    <<"End", <<<<"Run", FALSE, 0, 2>>>>>>, <<"Fork", 28, 9>>, <<"Fork", 15, 10>>,
    <<"Fork", 12, 11>>, <<"End", <<<<"Run", TRUE, 0, 1>>>>>>, <<"Fork", 13, 14>>,
    <<"End", <<<<"Run", FALSE, 4, 1>>>>>>, <<"End", <<<<"Run", FALSE, 3, 1>>>>>>,
    <<"Fork", 16, 23>>, <<"Fork", 17, 20>>, <<"Fork", 18, 19>>,
    <<"End", <<<<"Run", FALSE, 9, 1>>>>>>, <<"End", <<<<"Run", FALSE, 8, 1>>>>>>,
    <<"Fork", 21, 22>>, <<"End", <<<<"Run", FALSE, 7, 1>>>>>>,
    <<"End", <<<<"Run", FALSE, 6, 1>>>>>>, <<"Fork", 25, 24>>,
    <<"End", <<<<"Run", FALSE, 5, 1>>>>>>, <<"Fork", 26, 27>>,
    <<"End", <<<<"Run", FALSE, 1, 2>>>>>>, <<"End", <<<<"Run", FALSE, 0, 3>>>>>>,
    <<"Fork", 52, 29>>, <<"Fork", 37, 30>>, <<"Fork", 31, 34>>, <<"Fork", 32, 33>>,
    <<"End", <<<<"Run", TRUE, 4, 1>>>>>>, <<"End", <<<<"Run", TRUE, 3, 1>>>>>>, <<"Fork", 35, 36>>,
    <<"End", <<<<"Run", TRUE, 2, 1>>>>>>, <<"End", <<<<"Run", TRUE, 1, 1>>>>>>, <<"Fork", 38, 45>>,
    <<"Fork", 39, 42>>, <<"Fork", 40, 41>>, <<"End", <<<<"Run", TRUE, 8, 1>>>>>>,
    <<"End", <<<<"Run", TRUE, 7, 1>>>>>>, <<"Fork", 43, 44>>, <<"End", <<<<"Run", TRUE, 6, 1>>>>>>,
    <<"End", <<<<"Run", TRUE, 5, 1>>>>>>, <<"Fork", 46, 49>>, <<"Fork", 47, 48>>,
    <<"End", <<<<"Run", FALSE, 12, 1>>>>>>, <<"End", <<<<"Run", FALSE, 11, 1>>>>>>,
    <<"Fork", 50, 51>>, <<"End", <<<<"Run", FALSE, 10, 1>>>>>>,
    <<"End", <<<<"Run", FALSE, 0, 4>>>>>>, <<"Fork", 90, 53>>, <<"Fork", 69, 54>>,
    <<"Fork", 55, 62>>, <<"Fork", 56, 59>>, <<"Fork", 57, 58>>,
    <<"End", <<<<"Run", TRUE, 11, 1>>>>>>, <<"End", <<<<"Run", TRUE, 10, 1>>>>>>,
    <<"Fork", 60, 61>>, <<"End", <<<<"Run", TRUE, 9, 1>>>>>>,
    <<"End", <<<<"Run", FALSE, 14, 1>>>>>>, <<"Fork", 63, 66>>, <<"Fork", 64, 65>>,
    <<"End", <<<<"Run", FALSE, 13, 1>>>>>>, <<"End", <<<<"Run", FALSE, 2, 2>>>>>>,
    <<"Fork", 67, 68>>, <<"End", <<<<"Run", FALSE, 1, 3>>>>>>,
    <<"End", <<<<"Run", FALSE, 0, 5>>>>>>, <<"Fork", 77, 70>>, <<"Fork", 71, 74>>,
    <<"Fork", 72, 73>>, <<"End", <<<<"Run", TRUE, 15, 1>>>>>>,
    <<"End", <<<<"Run", TRUE, 14, 1>>>>>>, <<"Fork", 75, 76>>,
    <<"End", <<<<"Run", TRUE, 13, 1>>>>>>, <<"End", <<<<"Run", TRUE, 12, 1>>>>>>,
    <<"Fork", 78, 85>>, <<"Fork", 79, 82>>, <<"Fork", 80, 81>>,
    <<"End", <<<<"Run", FALSE, 16, 1>>>>>>, <<"End", <<<<"Run", FALSE, 15, 1>>>>>>,
    <<"Fork", 83, 84>>, <<"End", <<<<"Run", FALSE, 4, 2>>>>>>,
    <<"End", <<<<"Run", FALSE, 3, 2>>>>>>, <<"Fork", 86, 89>>, <<"Fork", 87, 88>>,
    <<"End", <<<<"Run", FALSE, 0, 7>>>>>>, <<"End", <<<<"Run", FALSE, 0, 6>>>>>>,
    <<"End", <<<<"Run", TRUE, 16, 1>>>>>>, <<"Fork", 124, 91>>, <<"Fork", 92, 109>>,
    <<"Fork", 93, 102>>, <<"Fork", 94, 99>>, <<"Fork", 95, 98>>, <<"Fork", 96, 97>>,
    <<"End", <<<<"Run", FALSE, 0, 9>>>>>>, <<"End", <<<<"Run", FALSE, 0, 8>>>>>>,
    <<"End", <<<<"Run", TRUE, 24, 1>>>>>>, <<"Fork", 100, 101>>,
    <<"End", <<<<"Run", TRUE, 23, 1>>>>>>, <<"End", <<<<"Run", TRUE, 22, 1>>>>>>,
    <<"Fork", 103, 106>>, <<"Fork", 104, 105>>, <<"End", <<<<"Run", TRUE, 21, 1>>>>>>,
    <<"End", <<<<"Run", TRUE, 20, 1>>>>>>, <<"Fork", 107, 108>>,
    <<"End", <<<<"Run", TRUE, 19, 1>>>>>>, <<"End", <<<<"Run", TRUE, 18, 1>>>>>>,
    <<"Fork", 110, 117>>, <<"Fork", 111, 114>>, <<"Fork", 112, 113>>,
    <<"End", <<<<"Run", TRUE, 17, 1>>>>>>, <<"End", <<<<"Run", TRUE, 0, 2>>>>>>,
    <<"Fork", 115, 116>>, <<"End", <<<<"Run", FALSE, 22, 1>>>>>>,
    <<"End", <<<<"Run", FALSE, 21, 1>>>>>>, <<"Fork", 118, 121>>, <<"Fork", 119, 120>>,
    <<"End", <<<<"Run", FALSE, 20, 1>>>>>>, <<"End", <<<<"Run", FALSE, 19, 1>>>>>>,
    <<"Fork", 122, 123>>, <<"End", <<<<"Run", FALSE, 18, 1>>>>>>,
    <<"End", <<<<"Run", FALSE, 17, 1>>>>>>, <<"Fork", 174, 125>>, <<"Fork", 127, 126>>,
    <<"End", <<<<"EscapeToLong">>>>>>, <<"Fork", 128, 143>>, <<"Fork", 129, 136>>,
    <<"Fork", 130, 133>>, <<"Fork", 131, 132>>, <<"End", <<<<"Run", FALSE, 0, 12>>>>>>,
    <<"End", <<<<"Run", FALSE, 1, 5>>>>>>, <<"Fork", 134, 135>>,
    <<"End", <<<<"Run", FALSE, 23, 1>>>>>>, <<"End", <<<<"Run", FALSE, 24, 1>>>>>>,
    <<"Fork", 137, 140>>, <<"Fork", 138, 139>>, <<"End", <<<<"Run", TRUE, 29, 1>>>>>>,
    <<"End", <<<<"Run", TRUE, 30, 1>>>>>>, <<"Fork", 141, 142>>,
    <<"End", <<<<"Run", TRUE, 31, 1>>>>>>, <<"End", <<<<"Run", TRUE, 32, 1>>>>>>,
    <<"Fork", 144, 159>>, <<"Fork", 145, 152>>, <<"Fork", 146, 149>>, <<"Fork", 147, 148>>,
    <<"End", <<<<"Run", FALSE, 1, 6>>>>>>, <<"End", <<<<"Run", FALSE, 2, 4>>>>>>,
    <<"Fork", 150, 151>>, <<"End", <<<<"Run", FALSE, 4, 3>>>>>>,
    <<"End", <<<<"Run", FALSE, 5, 3>>>>>>, <<"Fork", 153, 156>>, <<"Fork", 154, 155>>,
    <<"End", <<<<"Run", FALSE, 6, 3>>>>>>, <<"End", <<<<"Run", FALSE, 10, 2>>>>>>,
    <<"Fork", 157, 158>>, <<"End", <<<<"Run", FALSE, 25, 1>>>>>>,
    <<"End", <<<<"Run", FALSE, 26, 1>>>>>>, <<"Fork", 160, 167>>, <<"Fork", 161, 164>>,
    <<"Fork", 162, 163>>, <<"End", <<<<"Run", TRUE, 33, 1>>>>>>,
    <<"End", <<<<"Run", TRUE, 34, 1>>>>>>, <<"Fork", 165, 166>>,
    <<"End", <<<<"Run", TRUE, 35, 1>>>>>>, <<"End", <<<<"Run", TRUE, 36, 1>>>>>>,
    <<"Fork", 168, 171>>, <<"Fork", 169, 170>>, <<"End", <<<<"Run", TRUE, 37, 1>>>>>>,
    <<"End", <<<<"Run", TRUE, 38, 1>>>>>>, <<"Fork", 172, 173>>,
    <<"End", <<<<"Run", TRUE, 39, 1>>>>>>, <<"End", <<<<"Run", TRUE, 40, 1>>>>>>,
    <<"Fork", 190, 175>>, <<"Fork", 176, 183>>, <<"Fork", 177, 180>>, <<"Fork", 178, 179>>,
    <<"End", <<<<"Run", FALSE, 9, 2>>>>>>, <<"End", <<<<"Run", FALSE, 8, 2>>>>>>,
    <<"Fork", 181, 182>>, <<"End", <<<<"Run", FALSE, 7, 2>>>>>>,
    <<"End", <<<<"Run", FALSE, 6, 2>>>>>>, <<"Fork", 184, 187>>, <<"Fork", 185, 186>>,
    <<"End", <<<<"Run", FALSE, 5, 2>>>>>>, <<"End", <<<<"Run", FALSE, 3, 3>>>>>>,
    <<"Fork", 188, 189>>, <<"End", <<<<"Run", FALSE, 2, 3>>>>>>,
    <<"End", <<<<"Run", FALSE, 1, 4>>>>>>, <<"Fork", 198, 191>>, <<"Fork", 192, 195>>,
    <<"Fork", 193, 194>>, <<"End", <<<<"Run", TRUE, 28, 1>>>>>>,
    <<"End", <<<<"Run", TRUE, 27, 1>>>>>>, <<"Fork", 196, 197>>,
    <<"End", <<<<"Run", TRUE, 26, 1>>>>>>, <<"End", <<<<"Run", TRUE, 25, 1>>>>>>,
    <<"Fork", 206, 199>>, <<"Fork", 200, 203>>, <<"Fork", 201, 202>>,
    <<"End", <<<<"Run", TRUE, 1, 2>>>>>>, <<"End", <<<<"Run", TRUE, 0, 3>>>>>>,
    <<"Fork", 204, 205>>, <<"End", <<<<"Run", FALSE, 0, 11>>>>>>,
    <<"End", <<<<"Run", FALSE, 0, 10>>>>>>, <<"End", <<>>>>
>>

\* IntraDC::from_u8
from_u8(value) == IF value = 0 \/ value = 128 THEN None ELSE Some(value)

\* level as i8
as_i8(level) == IF level >= 128 THEN level - 256 ELSE level

\* The level of an escape-coded coefficient that passes only zero as invalid
check_level_zero_only(level, running_options_) ==
    IF level = 0 THEN "InvalidBitstream" ELSE "Ok"

\* The level of an escape-coded coefficient: the error it is refused with,
\* or "Ok"
check_level(level, running_options_) ==
    IF level = 0 THEN "InvalidBitstream"
    ELSE IF level = 128
    THEN (IF "ModifiedQuantization" \in running_options_ THEN "UnimplementedDecoding"
          ELSE "InvalidBitstream")
    ELSE "Ok"

\* The coefficient loop of decode_block.
RECURSIVE tcoef_loop(_, _, _)
tcoef_loop(rd, running_options_, tcoef) ==
    Only({ IF IsErr(short_tcoef) THEN short_tcoef
           ELSE IF short_tcoef.val = None THEN Err("InvalidBitstream", short_tcoef.rd)
           ELSE IF short_tcoef.val[1][1] = "EscapeToLong" THEN
    Only({ IF IsErr(e_last) THEN e_last ELSE
    Only({ IF IsErr(e_run) THEN e_run ELSE
    Only({ IF IsErr(e_level) THEN e_level
           ELSE IF check_level(e_level.val, running_options_) # "Ok"
           THEN Err(check_level(e_level.val, running_options_), e_level.rd)
           ELSE IF e_last.val = 0
           THEN Ok(Append(tcoef, [is_short |-> FALSE, run |-> e_run.val,
                                  level |-> as_i8(e_level.val)]), e_level.rd)
           ELSE tcoef_loop(e_level.rd, running_options_,
                           Append(tcoef, [is_short |-> FALSE, run |-> e_run.val,
                                          level |-> as_i8(e_level.val)]))
    : e_level \in {read_u8(e_run.rd)} })
    : e_run \in {read_bits(e_last.rd, 8, 6)} })
    : e_last \in {read_bits(short_tcoef.rd, 8, 1)} })
           ELSE
    Only({ IF IsErr(sign) THEN sign ELSE
    Only({ IF short_tcoef.val[1][2] THEN Ok(t, sign.rd)
           ELSE tcoef_loop(sign.rd, running_options_, t)
    : t \in {LET entry == short_tcoef.val[1]
             IN Append(tcoef, [is_short |-> TRUE, run |-> entry[3],
                               level |-> IF sign.val = 0 THEN entry[4]
                                         ELSE -entry[4]])} })
    : sign \in {read_bits(short_tcoef.rd, 8, 1)} })
    : short_tcoef \in {read_vlc(rd, TCOEF_TABLE)} })

decode_block_f(rd, running_options_, macroblock_type) ==
    Only({ IF IsErr(dc) THEN dc
           ELSE IF is_intra(macroblock_type) /\ from_u8(dc.val) = None
           THEN Err("InvalidBitstream", dc.rd) ELSE
    Only({ IF IsErr(t) THEN t
           ELSE Ok([intradc |-> IF is_intra(macroblock_type) THEN from_u8(dc.val)
                                ELSE None,
                    tcoef |-> t.val], t.rd)
    : t \in {tcoef_loop(dc.rd, running_options_, <<>>)} })
    : dc \in {IF is_intra(macroblock_type) THEN read_u8(rd) ELSE Ok(0, rd)} })

decode_block(rd, running_options_, macroblock_type) ==
    with_transaction(rd, decode_block_f(rd, running_options_, macroblock_type))

---------------------------------------------------------------------------
(* decoder/state.rs: H263State *)

\* HashMap<u16, DecodedPicture> as a function on its key set
EmptyMap == [k \in {} |-> 0]
get(m, k) == IF k \in DOMAIN m THEN Some(m[k]) ELSE None
insert(m, k, v) == [x \in DOMAIN m \cup {k} |-> IF x = k THEN v ELSE m[x]]
remove(m, k) == [x \in DOMAIN m \ {k} |-> m[x]]
\* remove_entry: Option<(K, V)>
remove_entry(m, k) == IF k \in DOMAIN m THEN Some(<<k, m[k]>>) ELSE None

\* H263State::new
new(decoder_options_) ==
    [decoder_options |-> decoder_options_,
     last_picture |-> None,
     reference_picture |-> None,
     running_options |-> {},
     reference_states |-> EmptyMap]

\* Fault variant of is_sorenson: the decoder option is not looked at.
is_sorenson_never(st) == FALSE

is_sorenson(st) == SORENSON_SPARK_BITSTREAM \in st.decoder_options

get_last_picture(st) ==
    IF st.last_picture = None THEN None
    ELSE get(st.reference_states, st.last_picture[1])

get_reference_picture(st) ==
    IF st.reference_picture = None THEN None
    ELSE get(st.reference_states, st.last_picture[1])

\* Fault variant of cleanup_buffers: every entry is kept.
cleanup_buffers_keep_all(st) == st

cleanup_buffers(st) ==
    LET last == IF st.last_picture = None THEN None
                ELSE remove_entry(st.reference_states, st.last_picture[1])
        m1 == IF last = None THEN st.reference_states
              ELSE remove(st.reference_states, st.last_picture[1])
        ref == IF st.reference_picture = None THEN None
               ELSE remove_entry(m1, st.reference_picture[1])
        m2 == IF last = None THEN EmptyMap ELSE insert(EmptyMap, last[1][1], last[1][2])
        m3 == IF ref = None THEN m2 ELSE insert(m2, ref[1][1], ref[1][2])
    IN [st EXCEPT !.reference_states = m3]

\* Error: the classes decode_next_picture asks about
is_eof_error(e) == e = "Io"
is_gob_error(e) == e = "InvalidGOBHeader"
is_macroblock_error(e) == e = "InvalidBitstream"

\* SourceFormat::into_width_and_height
into_width_and_height(format) ==
    CASE format[1] = "SubQCIF" -> Some(<<128, 96>>)
      [] format[1] = "QuarterCIF" -> Some(<<176, 144>>)
      [] format[1] = "FullCIF" -> Some(<<352, 288>>)
      [] format[1] = "FourCIF" -> Some(<<704, 576>>)
      [] format[1] = "SixteenCIF" -> Some(<<1408, 1152>>)
      [] format[1] = "Reserved" -> None
      [] OTHER -> Some(<<format[3], format[4]>>)

\* (x as f64 / 16.0).ceil() as usize
ceil16(x) == (x + 15) \div 16

\* DecodedPicture::new: the header, the resolved format and the dimensions
\* rounded up to whole macroblocks
DecodedPicture(picture, format, dimensions) ==
    [header |-> picture, format |-> format, dimensions |-> dimensions]

as_header(decoded) == decoded.header

\* What decode_next_picture leaves behind: the result, the reader, the decoder
\* state, and what the call computed on the way (the header, the options in
\* force, the reference picture taken for gather, the calls of the macroblock
\* loop, macroblock_types.len() when the loop broke, and
\* mb_per_line * mb_height).
Outcome(e, rd, st, header, in_force_, reference) ==
    [err |-> e, val |-> 0, rd |-> rd, st |-> st, header |-> header,
     in_force |-> in_force_, reference |-> reference, trace |-> <<>>,
     macroblocks |-> 0, capacity |-> 0, levels |-> <<>>]

\* inverse_rle: the index of the block in levels
block_id(pos, blk_per_line) == (pos[1] \div 8) + ((pos[2] \div 8) * blk_per_line)

\* The inverse_rle call for block k (0..3 luma, 4 and 5 chroma) of the
\* macroblock at pos: the index into levels, and the length of levels (the
\* number of samples of the plane of next_decoded_picture).
inverse_rle_call(k, pos, dimensions, quant) ==
    [block_id |-> IF k < 4
                  THEN block_id(<<pos[1] + 8 * (k % 2), pos[2] + 8 * (k \div 2)>>, dimensions[1])
                  ELSE block_id(<<pos[1] \div 2, pos[2] \div 2>>, dimensions[1] \div 2),
     levels_len |-> IF k < 4 THEN dimensions[1] * dimensions[2]
                    ELSE (dimensions[1] \div 2) * (dimensions[2] \div 2),
     quant |-> quant]

\* The six decode_block calls of a coded macroblock, each followed by its
\* inverse_rle call; val is calls with the inverse_rle calls made appended.
\* Indexing levels beyond its length panics.
RECURSIVE decode_blocks(_, _, _, _, _, _, _, _)
decode_blocks(rd, running_options_, mb_type, n, pos, dimensions, quant, calls) ==
    IF n = 0 THEN Ok(calls, rd)
    ELSE Only({ IF IsErr(b) THEN [b EXCEPT !.val = calls]
                ELSE Only({ IF c.block_id >= c.levels_len
                            THEN [Err("Panic", b.rd) EXCEPT !.val = calls]
                            ELSE decode_blocks(b.rd, running_options_, mb_type, n - 1, pos,
                                               dimensions, quant, Append(calls, c))
                            : c \in {inverse_rle_call(6 - n, pos, dimensions, quant)} })
                : b \in {decode_block(rd, running_options_, mb_type)} })

\* in_force_quantizer as i8 + d_quantizer.unwrap_or(0), not clamped
next_quantizer_unclamped(in_force_quantizer, d_quantizer) ==
    in_force_quantizer + (IF d_quantizer = None THEN 0 ELSE d_quantizer[1])

\* max(1, min(31, in_force_quantizer as i8 + d_quantizer.unwrap_or(0))) as u8
next_quantizer(in_force_quantizer, d_quantizer) ==
    Max(1, Min(31, in_force_quantizer + (IF d_quantizer = None THEN 0 ELSE d_quantizer[1])))

\* What the macroblock loop met on its way, in order: <<"macroblock", e>> for
\* an error e returned by decode_macroblock, <<"decode_gob", e, p>> for a call of
\* decode_gob, its result and the bit position it was called at; levels is
\* the list of the inverse_rle calls made.
Traced(r, trace, levels) ==
    [err |-> r.err, val |-> r.val, rd |-> r.rd, trace |-> trace, levels |-> levels]
mb_trace(trace, mb) == Append(trace, <<"macroblock", mb.err>>)
mb_gob_trace(trace, mb, gob) == Append(mb_trace(trace, mb), <<"decode_gob", gob.err, mb.rd.bits_read>>)

\* The macroblock loop: val is the list of macroblock types when the loop
\* breaks; an Err is what the loop returns from decode_next_picture.
RECURSIVE macroblock_loop(_, _, _, _, _, _, _, _, _, _)
macroblock_loop(rd, st, header, next_running_options, mb_per_line, mb_height, in_force_quantizer, macroblock_types, trace, levels) ==
    Only({ IF mb_per_line = 0 THEN Traced(Err("Panic", mb.rd), trace, levels)
           ELSE IF IsOk(mb) /\ mb.val.kind = "Stuffing"
           THEN macroblock_loop(mb.rd, st, header, next_running_options, mb_per_line,
                                mb_height, in_force_quantizer, macroblock_types, trace,
                                levels)
           ELSE IF IsOk(mb) /\ mb.val.kind = "Uncoded"
           THEN IF header.picture_type = "IFrame"
                THEN Traced(Err("UncodedIFrameBlocks", mb.rd), trace, levels)
                ELSE macroblock_loop(mb.rd, st, header, next_running_options, mb_per_line,
                                     mb_height, in_force_quantizer,
                                     Append(macroblock_types, "Inter"), trace, levels)
           ELSE IF IsOk(mb) THEN
    Only({ IF IsErr(blocks) THEN Traced(blocks, trace, blocks.val)
           ELSE macroblock_loop(blocks.rd, st, header, next_running_options, mb_per_line,
                                mb_height,
                                next_quantizer(in_force_quantizer, mb.val.d_quantizer),
                                Append(macroblock_types, mb.val.mb_type), trace,
                                blocks.val)
    : blocks \in {decode_blocks(mb.rd, next_running_options, mb.val.mb_type, 6,
                                <<(Len(macroblock_types) % mb_per_line) * 16,
                                  (Len(macroblock_types) \div mb_per_line) * 16>>,
                                <<mb_per_line * 16, mb_height * 16>>,
                                next_quantizer(in_force_quantizer, mb.val.d_quantizer),
                                levels)} })
           ELSE IF is_macroblock_error(mb.err) /\ ~is_sorenson(st) THEN
    Only({ IF IsOk(gob) /\ gob.val = None
           THEN Traced(Ok(macroblock_types, gob.rd), mb_gob_trace(trace, mb, gob), levels)
           ELSE IF IsOk(gob)
           THEN macroblock_loop(gob.rd, st, header, next_running_options, mb_per_line,
                                mb_height, gob.val[1].quantizer, macroblock_types,
                                mb_gob_trace(trace, mb, gob), levels)
           ELSE IF is_eof_error(gob.err) \/ is_gob_error(gob.err)
           THEN Traced(Ok(macroblock_types, gob.rd), mb_gob_trace(trace, mb, gob), levels)
           ELSE Traced(gob, mb_gob_trace(trace, mb, gob), levels)
    : gob \in {decode_gob(mb.rd, st.decoder_options)} })
           ELSE IF is_eof_error(mb.err)
           THEN Traced(Ok(macroblock_types, mb.rd), mb_trace(trace, mb), levels)
           ELSE Traced(mb, mb_trace(trace, mb), levels)
    : mb \in {decode_macroblock(rd, header, next_running_options)} })

\* cpu/gather.rs: an INTER macroblock needs the reference picture
gather(mb_types, reference) ==
    IF reference = None /\ \E i \in DOMAIN mb_types : is_inter(mb_types[i])
    THEN "UncodedIFrameBlocks" ELSE "Ok"

\* The bookkeeping at the end of decode_next_picture.
store_picture(st, next_decoded_picture) ==
    Only({ Only({ Only({ Only({ cleanup_buffers(st4)
    : st4 \in {[st3 EXCEPT !.reference_states =
                   insert(st3.reference_states,
                          as_header(next_decoded_picture).temporal_reference,
                          next_decoded_picture)]} })
    : st3 \in {IF ~is_disposable(as_header(next_decoded_picture).picture_type)
               THEN [st2 EXCEPT !.reference_picture =
                        Some(as_header(next_decoded_picture).temporal_reference)]
               ELSE st2} })
    : st2 \in {[st1 EXCEPT !.last_picture =
                   Some(as_header(next_decoded_picture).temporal_reference)]} })
    : st1 \in {IF as_header(next_decoded_picture).picture_type = "IFrame"
               THEN [st EXCEPT !.reference_picture = None] ELSE st} })

\* Fault variant of finish_picture: the picture is stored before gather runs.
finish_picture_store_first(rd, st, next_decoded_picture, macroblock_types, in_force_, reference) ==
    Only({ IF gather(macroblock_types, reference) # "Ok"
           THEN Outcome(gather(macroblock_types, reference), rd, stored,
                        Some(as_header(next_decoded_picture)), in_force_, reference)
           ELSE Outcome("Ok", commit(rd), stored, Some(as_header(next_decoded_picture)),
                        in_force_, reference)
    : stored \in {store_picture(st, next_decoded_picture)} })

\* decode_next_picture from gather on: the batch decode, then the bookkeeping
\* and the commit of the reader.
finish_picture(rd, st, next_decoded_picture, macroblock_types, in_force_, reference) ==
    IF gather(macroblock_types, reference) # "Ok"
    THEN Outcome(gather(macroblock_types, reference), rd, st,
                 Some(as_header(next_decoded_picture)), in_force_, reference)
    ELSE Outcome("Ok", commit(rd), store_picture(st, next_decoded_picture),
                 Some(as_header(next_decoded_picture)), in_force_, reference)

\* next_running_options
merge_running_options(next_picture, running_options_) ==
    IF next_picture.has_plusptype /\ next_picture.has_opptype
    THEN next_picture.options
    ELSE IF next_picture.has_plusptype
    THEN (next_picture.options \ OPPTYPE_OPTIONS) \cup (running_options_ \cap OPPTYPE_OPTIONS)
    ELSE (next_picture.options \ (OPPTYPE_OPTIONS \cup MPPTYPE_OPTIONS))
         \cup (running_options_ \cap (OPPTYPE_OPTIONS \cup MPPTYPE_OPTIONS))

\* The closure of decode_next_picture.
decode_next_picture_f(rd, st) ==
    Only({
    Only({ IF IsErr(p) THEN Outcome(p.err, p.rd, st, None, {}, None)
           ELSE IF p.val = None
           THEN Outcome("MiddleOfBitstream", p.rd, st, None, {}, None) ELSE
    Only({
    Only({ IF format = None
           THEN Outcome("PictureFormatMissing", p.rd, st, p.val, next_running_options,
                        None) ELSE
    Only({
    Only({ IF wh = None
           THEN Outcome("PictureFormatInvalid", p.rd, st, p.val, next_running_options,
                        reference) ELSE
    Only({
    Only({ IF IsErr(loop)
           THEN [Outcome(loop.err, loop.rd, st, p.val, next_running_options, reference)
                 EXCEPT !.trace = loop.trace, !.levels = loop.levels,
                        !.capacity = ceil16(wh[1][1]) * ceil16(wh[1][2])]
           ELSE [finish_picture(loop.rd, st, next_decoded_picture, loop.val,
                                next_running_options, reference)
                 EXCEPT !.trace = loop.trace, !.levels = loop.levels,
                        !.macroblocks = Len(loop.val),
                        !.capacity = ceil16(wh[1][1]) * ceil16(wh[1][2])]
    : loop \in {macroblock_loop(p.rd, st, as_header(next_decoded_picture),
                                next_running_options, ceil16(wh[1][1]),
                                ceil16(wh[1][2]), p.val[1].quantizer, <<>>, <<>>,
                                <<>>)} })
    : next_decoded_picture \in
          {DecodedPicture(p.val[1], format[1],
                          <<ceil16(wh[1][1]) * 16, ceil16(wh[1][2]) * 16>>)} })
    : wh \in {into_width_and_height(format[1])} })
    : reference \in {get_reference_picture(st)} })
    : format \in {IF p.val[1].format # None THEN p.val[1].format
                  ELSE IF p.val[1].picture_type = "IFrame" THEN None
                  ELSE IF last # None THEN Some(last[1].format)
                  ELSE None} })
    : next_running_options \in {merge_running_options(p.val[1], st.running_options)} })
    : p \in {decode_picture(rd, st.decoder_options,
                            IF last = None THEN None ELSE Some(as_header(last[1])))} })
    : last \in {get_last_picture(st)} })

\* A panic unwinds through with_transaction: nothing is rolled back.
decode_next_picture(rd, st) ==
    Only({ IF r.err = "Panic" THEN r ELSE with_transaction(rd, r)
    : r \in {decode_next_picture_f(rd, st)} })

---------------------------------------------------------------------------
(* The decoder driven over a byte source that receives encoded pictures *)

\* Encoded pictures.  Sorenson Spark: a 16x16 I picture (one INTRA
\* macroblock), a P picture (an uncoded and an INTER macroblock), a
\* disposable P picture (uncoded macroblocks up to the byte boundary), with
\* temporal references 1, 2, 3.  H.263: an I picture with PLUSPTYPE and
\* OPPTYPE (advanced prediction set), an I and a P picture with plain PTYPE,
\* all sub-QCIF, and a GOB header (GN = 1).
SORENSON_I ==
    <<0, 0, 128, 4, 8, 8, 5, 113, 7, 8, 56, 65, 194, 14, 16, 112, 131, 128>>

SORENSON_P ==
    <<0, 0, 128, 8, 8, 8, 37, 95, 115, 156, 231, 56>>

SORENSON_D ==
    <<0, 0, 128, 12, 8, 8, 69, 127>>

H263_PLUS_I ==
    <<0, 0, 128, 6, 28, 145, 1, 0, 17, 92, 65, 194, 14, 16, 112, 131, 132, 28, 32, 224>>

H263_I ==
    <<0, 0, 128, 10, 6, 5, 56, 131, 132, 28, 32, 225, 7, 8, 56, 65, 192>>

H263_P ==
    <<0, 0, 128, 14, 4, 5, 47, 185, 206, 115, 156>>

H263_GOB ==
    <<0, 0, 132>>

\* The deliveries a source may receive: whole pictures, and a picture cut in
\* its header.
HeadBytes == 4
HeadOf(bytes) == SubSeq(bytes, 1, HeadBytes)
TailOf(bytes) == SubSeq(bytes, HeadBytes + 1, Len(bytes))

Deliveries(decoder_options_) ==
    IF SORENSON_SPARK_BITSTREAM \in decoder_options_
    THEN {SORENSON_I, SORENSON_P, SORENSON_D, HeadOf(SORENSON_I), TailOf(SORENSON_I)}
    ELSE {H263_PLUS_I, H263_I, H263_P, H263_GOB}

MaxFeed == 3

State ==
    [decoder_options |-> decoder_options, last_picture |-> last_picture,
     reference_picture |-> reference_picture, running_options |-> running_options,
     reference_states |-> reference_states]

Reader == [source |-> source, buffer |-> buffer, bits_read |-> bits_read]

SetReader(rd) ==
    /\ source' = rd.source
    /\ buffer' = rd.buffer
    /\ bits_read' = rd.bits_read

SetState(st) ==
    /\ decoder_options' = st.decoder_options
    /\ last_picture' = st.last_picture
    /\ reference_picture' = st.reference_picture
    /\ running_options' = st.running_options
    /\ reference_states' = st.reference_states

state_vars == <<decoder_options, last_picture, reference_picture, running_options,
                reference_states>>

Init ==
    /\ \E o \in {{}, {SORENSON_SPARK_BITSTREAM}} :
           /\ decoder_options = new(o).decoder_options
           /\ last_picture = new(o).last_picture
           /\ reference_picture = new(o).reference_picture
           /\ running_options = new(o).running_options
           /\ reference_states = new(o).reference_states
    /\ source = from_source(<<>>).source
    /\ buffer = from_source(<<>>).buffer
    /\ bits_read = from_source(<<>>).bits_read
    /\ fed = 0
    /\ in_force = {}
    /\ call = [op |-> "new"]

\* The byte source receives more of the stream.
Deliver ==
    /\ fed < MaxFeed
    /\ \E bytes \in Deliveries(decoder_options) :
           source' = source \o bytes
    /\ fed' = fed + 1
    /\ call' = [op |-> "deliver"]
    /\ UNCHANGED <<state_vars, buffer, bits_read, in_force>>

DecodeNextPicture ==
    \E r \in {decode_next_picture(Reader, State)} :
       /\ SetReader(r.rd)
       /\ SetState(r.st)
       /\ in_force' = IF r.err = "Ok" THEN r.in_force ELSE in_force
       /\ call' = [op |-> "decode_next_picture", err |-> r.err, header |-> r.header,
                   in_force |-> r.in_force, reference |-> r.reference,
                   trace |-> r.trace, macroblocks |-> r.macroblocks,
                   capacity |-> r.capacity, levels |-> r.levels]
       /\ UNCHANGED fed

Next ==
    \/ Deliver
    \/ DecodeNextPicture

Spec == Init /\ [][Next]_vars

---------------------------------------------------------------------------
(* The parsers called one at a time on a reader over a complete source *)

\* The sources: one delivery, or a whole stream of three pictures.
Stream(decoder_options_) ==
    IF SORENSON_SPARK_BITSTREAM \in decoder_options_
    THEN SORENSON_I \o SORENSON_P \o SORENSON_D
    ELSE H263_PLUS_I \o H263_I \o H263_P

ParserSources(decoder_options_) ==
    Deliveries(decoder_options_) \cup {Stream(decoder_options_)}

ParserInit ==
    /\ \E o \in {{}, {SORENSON_SPARK_BITSTREAM}} :
           /\ decoder_options = new(o).decoder_options
           /\ last_picture = new(o).last_picture
           /\ reference_picture = new(o).reference_picture
           /\ running_options = new(o).running_options
           /\ reference_states = new(o).reference_states
           /\ \E bytes \in ParserSources(o) : source = from_source(bytes).source
    /\ buffer = from_source(<<>>).buffer
    /\ bits_read = from_source(<<>>).bits_read
    /\ fed = 0
    /\ in_force = {}
    /\ call = [op |-> "new"]

DecodePicture ==
    \E last \in {get_last_picture(State)} :
    \E r \in {decode_picture(Reader, decoder_options,
                             IF last = None THEN None ELSE Some(as_header(last[1])))} :
       /\ SetReader(r.rd)
       /\ call' = [op |-> "decode_picture", err |-> r.err,
                   none |-> IsOk(r) /\ r.val = None]
       /\ UNCHANGED <<state_vars, fed, in_force>>

DecodeGob ==
    \E r \in {decode_gob(Reader, decoder_options)} :
       /\ SetReader(r.rd)
       /\ call' = [op |-> "decode_gob", err |-> r.err, none |-> IsOk(r) /\ r.val = None]
       /\ UNCHANGED <<state_vars, fed, in_force>>

DecodeMacroblock ==
    \E picture_type \in {"IFrame", "PFrame"} :
    \E r \in {decode_macroblock(Reader,
                  [picture_type |-> picture_type, has_plusptype |-> FALSE], in_force)} :
       /\ SetReader(r.rd)
       /\ call' = [op |-> "decode_macroblock", err |-> r.err, none |-> FALSE]
       /\ UNCHANGED <<state_vars, fed, in_force>>

DecodeBlock ==
    \E macroblock_type \in {"Intra", "Inter"} :
    \E r \in {decode_block(Reader, in_force, macroblock_type)} :
       /\ SetReader(r.rd)
       /\ call' = [op |-> "decode_block", err |-> r.err, none |-> FALSE,
                   macroblock_type |-> macroblock_type, val |-> r.val]
       /\ UNCHANGED <<state_vars, fed, in_force>>

ParserNext ==
    \/ DecodeNextPicture
    \/ DecodePicture
    \/ DecodeGob
    \/ DecodeMacroblock
    \/ DecodeBlock

ParserSpec == ParserInit /\ [][ParserNext]_vars

---------------------------------------------------------------------------
(* The reader's own operations on short sources *)

\* Bytes that end a start code one bit (0x40) and four bits (0x08) past a
\* byte boundary; the GOB header ends one on the boundary.
Bytes == {0, 8, 64}
MaxBytes == 3

ByteSeqs == [1..MaxBytes -> Bytes]

\* The bytes of tests::resynchronize_to_start_code: the start code is nine
\* bits ahead.
RESYNC == <<19, 128, 0, 64, 0>>

ReaderSources == ByteSeqs \cup {H263_GOB, RESYNC}

ReaderInit ==
    /\ decoder_options = new({}).decoder_options
    /\ last_picture = new({}).last_picture
    /\ reference_picture = new({}).reference_picture
    /\ running_options = new({}).running_options
    /\ reference_states = new({}).reference_states
    /\ \E bytes \in ReaderSources : source = from_source(bytes).source
    /\ buffer = from_source(<<>>).buffer
    /\ bits_read = from_source(<<>>).bits_read
    /\ fed = 0
    /\ in_force = {}
    /\ call = [op |-> "new"]

SkipWidths == {1, 2}

SkipBits ==
    \E n \in SkipWidths :
    \E r \in {skip_bits(Reader, n)} :
       /\ SetReader(r.rd)
       /\ call' = [op |-> "skip_bits", err |-> r.err]
       /\ UNCHANGED <<state_vars, fed, in_force>>

RecognizeStartCode ==
    \E in_error \in BOOLEAN :
    \E r \in {recognize_start_code(Reader, in_error)} :
       /\ SetReader(r.rd)
       /\ call' = [op |-> "recognize_start_code", in_error |-> in_error,
                   err |-> r.err, val |-> r.val]
       /\ UNCHANGED <<state_vars, fed, in_force>>

\* A closure handed to with_transaction / with_transaction_union: it reads n
\* bits, then returns its verdict: "Some" (Ok(Some(bits))), "None" (Ok(None))
\* or an error.
ReadWidths == {0, 2}

closure(rd, n, verdict) ==
    Only({ IF IsErr(r) THEN r
           ELSE IF verdict = "Some" THEN Ok(Some(r.val), r.rd)
           ELSE IF verdict = "None" THEN Ok(None, r.rd)
           ELSE Err(verdict, r.rd)
    : r \in {read_bits(rd, 32, n)} })

WithTransaction ==
    \E n \in ReadWidths, verdict \in {"Some", "InvalidBitstream"} :
    \E f \in {closure(Reader, n, verdict)} :
    \E r \in {with_transaction(Reader, f)} :
       /\ SetReader(r.rd)
       /\ call' = [op |-> "with_transaction", f_err |-> f.err,
                   f_none |-> IsOk(f) /\ f.val = None,
                   f_pos |-> f.rd.bits_read, err |-> r.err]
       /\ UNCHANGED <<state_vars, fed, in_force>>

WithTransactionUnion ==
    \E n \in ReadWidths, verdict \in {"Some", "None", "InvalidBitstream"} :
    \E f \in {closure(Reader, n, verdict)} :
    \E r \in {with_transaction_union(Reader, f)} :
       /\ SetReader(r.rd)
       /\ call' = [op |-> "with_transaction_union", f_err |-> f.err,
                   f_none |-> IsOk(f) /\ f.val = None,
                   f_pos |-> f.rd.bits_read, err |-> r.err]
       /\ UNCHANGED <<state_vars, fed, in_force>>

ReaderNext ==
    \/ SkipBits
    \/ RecognizeStartCode
    \/ WithTransaction
    \/ WithTransactionUnion
    \/ DecodePicture

ReaderSpec == ReaderInit /\ [][ReaderNext]_vars


---------------------------------------------------------------------------
(* types.rs: HalfPel; decoder/cpu/mvd_pred.rs *)

STANDARD_RANGE == 32
EXTENDED_RANGE == 64
EXTENDED_RANGE_QUADCIF == 128
EXTENDED_RANGE_SIXTEENCIF == 256
EXTENDED_RANGE_BEYONDCIF == 512

\* HalfPel::invert
invert(v) == IF v > 0 THEN v - 64 ELSE IF v < 0 THEN v + 64 ELSE v

\* HalfPel::is_mv_within_range
is_mv_within_range(v, range) == -range <= v /\ v < range

\* Fault variant of average_sum_of_mvs: the fraction is dropped.
average_sum_of_mvs_floor(v) == (v \div 16) * 2

\* HalfPel::average_sum_of_mvs: self.0 >> 4 is the floor of self.0 / 16 and
\* self.0 & 0x0F the remainder in 0..15
average_sum_of_mvs(v) ==
    LET whole == (v \div 16) * 2
        frac == v % 16
    IN IF frac \in {0, 1, 2} THEN whole
       ELSE IF frac \in {14, 15} THEN whole + 2
       ELSE whole + 1

\* The range halfpel_decode holds in `range` when it returns.
halfpel_range(current_picture, running_options_, predictor, is_x) ==
    LET wh == into_width_and_height(current_picture.format)
    IN IF "UnrestrictedMotionVectors" \in running_options_
          /\ ~as_header(current_picture).has_plusptype
       THEN IF is_mv_within_range(predictor, STANDARD_RANGE) THEN STANDARD_RANGE
            ELSE EXTENDED_RANGE
       ELSE IF "UnrestrictedMotionVectors" \in running_options_
               /\ as_header(current_picture).motion_vector_range = Some("Extended")
       THEN IF wh = None THEN EXTENDED_RANGE
            ELSE IF is_x
            THEN (CASE wh[1][1] \in 0..352 -> EXTENDED_RANGE
                    [] wh[1][1] \in 356..704 -> EXTENDED_RANGE_QUADCIF
                    [] wh[1][1] \in 708..1408 -> EXTENDED_RANGE_SIXTEENCIF
                    [] wh[1][1] \in 1412..65535 -> EXTENDED_RANGE_BEYONDCIF
                    [] OTHER -> EXTENDED_RANGE)
            ELSE (CASE wh[1][2] \in 0..288 -> EXTENDED_RANGE
                    [] wh[1][2] \in 292..576 -> EXTENDED_RANGE_QUADCIF
                    [] wh[1][2] \in 580..65535 -> EXTENDED_RANGE_SIXTEENCIF
                    [] OTHER -> EXTENDED_RANGE)
       ELSE STANDARD_RANGE

halfpel_decode(current_picture, running_options_, predictor, mvd, is_x) ==
    IF /\ "UnrestrictedMotionVectors" \in running_options_
       /\ ~as_header(current_picture).has_plusptype
       /\ is_mv_within_range(predictor, STANDARD_RANGE)
    THEN mvd + predictor
    ELSE IF ~is_mv_within_range(mvd + predictor,
                                halfpel_range(current_picture, running_options_,
                                              predictor, is_x))
    THEN invert(mvd) + predictor
    ELSE mvd + predictor

---------------------------------------------------------------------------
(* The motion vector arithmetic applied to vectors a picture can carry *)

\* The pictures: plain H.263; unrestricted motion vectors without PLUSPTYPE;
\* with PLUSPTYPE and the extended range, sub-QCIF and 4CIF; with PLUSPTYPE
\* and the unlimited range.
VectorPicture(has_plusptype, motion_vector_range, format) ==
    DecodedPicture([has_plusptype |-> has_plusptype,
                    motion_vector_range |-> motion_vector_range], format, <<0, 0>>)

VectorPictures ==
    {<<VectorPicture(FALSE, None, <<"SubQCIF">>), {}>>,
     <<VectorPicture(FALSE, None, <<"SubQCIF">>), {"UnrestrictedMotionVectors"}>>,
     <<VectorPicture(TRUE, Some("Extended"), <<"SubQCIF">>),
       {"UnrestrictedMotionVectors"}>>,
     <<VectorPicture(TRUE, Some("Extended"), <<"FourCIF">>),
       {"UnrestrictedMotionVectors"}>>,
     <<VectorPicture(TRUE, Some("Unlimited"), <<"SubQCIF">>),
       {"UnrestrictedMotionVectors"}>>}

\* The range of a vector component in the picture: the one halfpel_decode
\* holds, and the extended range throughout for unrestricted motion vectors
\* without PLUSPTYPE.
SelectedRange(current_picture, running_options_, predictor, is_x) ==
    IF "UnrestrictedMotionVectors" \in running_options_
       /\ ~as_header(current_picture).has_plusptype
    THEN EXTENDED_RANGE
    ELSE halfpel_range(current_picture, running_options_, predictor, is_x)

\* The MVD components decode_motion_vector can return for the picture: the
\* entries of MVD_TABLE, or what read_umv returns, up to MaxUmv.
MaxUmv == 72

MvdValues(current_picture, running_options_) ==
    IF "UnrestrictedMotionVectors" \in running_options_
       /\ as_header(current_picture).has_plusptype
    THEN -MaxUmv..MaxUmv
    ELSE {MVD_TABLE[i][2][1] :
             i \in {j \in DOMAIN MVD_TABLE :
                       MVD_TABLE[j][1] = "End" /\ MVD_TABLE[j][2] # None}}

\* The half-pel values average_sum_of_mvs is given four times over
MaxHalfPel == 64

VectorInit ==
    /\ decoder_options = new({}).decoder_options
    /\ last_picture = new({}).last_picture
    /\ reference_picture = new({}).reference_picture
    /\ running_options = new({}).running_options
    /\ reference_states = new({}).reference_states
    /\ source = from_source(<<>>).source
    /\ buffer = from_source(<<>>).buffer
    /\ bits_read = from_source(<<>>).bits_read
    /\ fed = 0
    /\ in_force = {}
    /\ \/ \E pic \in VectorPictures, is_x \in BOOLEAN :
          \E r \in {SelectedRange(pic[1], pic[2], 0, is_x)} :
          \E predictor \in (-r)..(r - 1), mvd \in MvdValues(pic[1], pic[2]) :
             call = [op |-> "input", fn |-> "halfpel_decode", picture |-> pic[1],
                     running_options |-> pic[2], predictor |-> predictor,
                     mvd |-> mvd, is_x |-> is_x]
       \/ \E v \in (-MaxHalfPel)..MaxHalfPel :
             call = [op |-> "input", fn |-> "average_sum_of_mvs", v |-> v]

HalfpelDecode ==
    /\ call.op = "input"
    /\ call.fn = "halfpel_decode"
    /\ call' = [op |-> "halfpel_decode", picture |-> call.picture,
                running_options |-> call.running_options,
                predictor |-> call.predictor, mvd |-> call.mvd, is_x |-> call.is_x,
                out |-> halfpel_decode(call.picture, call.running_options,
                                       call.predictor, call.mvd, call.is_x)]
    /\ UNCHANGED <<state_vars, source, buffer, bits_read, fed, in_force>>

\* gather: (mv[0] + mv[1] + mv[2] + mv[3]).average_sum_of_mvs() with the four
\* vectors alike
AverageSumOfMvs ==
    /\ call.op = "input"
    /\ call.fn = "average_sum_of_mvs"
    /\ call' = [op |-> "average_sum_of_mvs", v |-> call.v,
                out |-> average_sum_of_mvs(call.v + call.v + call.v + call.v)]
    /\ UNCHANGED <<state_vars, source, buffer, bits_read, fed, in_force>>

VectorNext ==
    \/ HalfpelDecode
    \/ AverageSumOfMvs

VectorSpec == VectorInit /\ [][VectorNext]_vars

---------------------------------------------------------------------------
(* decoder/cpu/gather.rs *)

\* a / b on signed integers: the quotient rounded toward zero
trunc_div(a, b) == IF a >= 0 THEN a \div b ELSE -((-a) \div b)

\* HalfPel::into_lerp_parameters
into_lerp_parameters(v) ==
    IF v % 2 = 0 THEN <<trunc_div(v, 2), FALSE>>
    ELSE IF v < 0 THEN <<trunc_div(v, 2) - 1, TRUE>>
    ELSE <<trunc_div(v, 2), TRUE>>

\* Fault variant of clamp: the value is passed through.
clamp_none(x, lo, hi) == x

\* Ord::clamp
clamp(x, lo, hi) == IF x < lo THEN lo ELSE IF x > hi THEN hi ELSE x

\* read_sample: the sample asked for, (u, v), and the index of pixel_array
\* it is read at
read_sample(samples_per_row, num_rows, pos) ==
    [u |-> pos[1], v |-> pos[2],
     index |-> clamp(pos[1], 0, Max(0, samples_per_row - 1))
               + clamp(pos[2], 0, Max(0, num_rows - 1)) * samples_per_row]

\* gather_block: the reads it makes of pixel_array (of array_len samples) for
\* the block at pos and the vector mv; the sample values and the writes to
\* target are left out.
gather_block(array_len, samples_per_row, pos, mv) ==
    LET x_lerp == into_lerp_parameters(mv[1])
        y_lerp == into_lerp_parameters(mv[2])
        src_x == pos[1] + x_lerp[1]
        src_y == pos[2] + y_lerp[1]
        array_height == array_len \div samples_per_row
        block_cols == clamp(samples_per_row - pos[1], 0, 8)
        block_rows == clamp(array_height - pos[2], 0, 8)
    IN IF ~x_lerp[2] /\ ~y_lerp[2]
       THEN IF /\ block_cols = 8
               /\ block_rows = 8
               /\ src_x \in 0..(samples_per_row - 8)
               /\ src_y \in 0..(array_height - 8)
            THEN {[u |-> src_x + i, v |-> src_y + j,
                   index |-> src_x + (src_y + j) * samples_per_row + i]
                  : i \in 0..7, j \in 0..7}
            ELSE {read_sample(samples_per_row, array_height, <<u, v>>)
                  : u \in src_x..(src_x + block_cols - 1),
                    v \in src_y..(src_y + block_rows - 1)}
       ELSE {read_sample(samples_per_row, array_height, <<u + du, v + dv>>)
             : u \in src_x..(src_x + block_cols - 1),
               v \in src_y..(src_y + block_rows - 1), du \in {0, 1}, dv \in {0, 1}}

---------------------------------------------------------------------------
(* gather_block on the planes of small pictures *)

\* Planes as <<array_len, samples_per_row>>: the luma plane of one macroblock,
\* a chroma plane of one macroblock, the luma plane of two macroblocks side
\* by side.
Planes == {<<256, 16>>, <<64, 8>>, <<512, 32>>}

\* Motion vector components, in half-pel units
MaxMv == 20

GatherInit ==
    /\ decoder_options = new({}).decoder_options
    /\ last_picture = new({}).last_picture
    /\ reference_picture = new({}).reference_picture
    /\ running_options = new({}).running_options
    /\ reference_states = new({}).reference_states
    /\ source = from_source(<<>>).source
    /\ buffer = from_source(<<>>).buffer
    /\ bits_read = from_source(<<>>).bits_read
    /\ fed = 0
    /\ in_force = {}
    /\ \E plane \in Planes :
       \E px \in {x \in 0..(plane[2] - 1) : x % 8 = 0} :
       \E py \in {y \in 0..((plane[1] \div plane[2]) - 1) : y % 8 = 0} :
       \E mx \in (-MaxMv)..MaxMv, my \in (-MaxMv)..MaxMv :
          call = [op |-> "input", array_len |-> plane[1], samples_per_row |-> plane[2],
                  pos |-> <<px, py>>, mv |-> <<mx, my>>]

GatherBlock ==
    /\ call.op = "input"
    /\ call' = [op |-> "gather_block", array_len |-> call.array_len,
                samples_per_row |-> call.samples_per_row, pos |-> call.pos,
                mv |-> call.mv,
                reads |-> gather_block(call.array_len, call.samples_per_row,
                                       call.pos, call.mv)]
    /\ UNCHANGED <<state_vars, source, buffer, bits_read, fed, in_force>>

GatherNext == GatherBlock

GatherSpec == GatherInit /\ [][GatherNext]_vars

---------------------------------------------------------------------------
(* deblock/src/deblock.rs: scalar_impl *)

\* i16::signum
signum(x) == IF x > 0 THEN 1 ELSE IF x < 0 THEN -1 ELSE 0

\* i16::abs
abs(x) == IF x < 0 THEN -x ELSE x

up_down_ramp(x, strength) ==
    signum(x) * Max(abs(x) - Max(2 * (abs(x) - strength), 0), 0)

clipd1(x, lim) == clamp(x, -abs(lim), abs(lim))

\* Fault variant of process: C and D are read swapped.
process_swapped(A, B, C, D, strength) ==
    Only({ Only({ Only({ <<(A - d2) % 256, clamp(B + d1, 0, 255), clamp(D - d1, 0, 255), (C + d2) % 256>>
        : d2 \in {clipd1(trunc_div(A - C, 4), trunc_div(d1, 2))} })
        : d1 \in {up_down_ramp(d, strength)} })
        : d \in {trunc_div(A - 4 * B + 4 * D - C, 8)} })

\* process: the four samples after the call, as <<A, B, C, D>>; `as u8` of
\* an i16 keeps its low eight bits
process(A, B, C, D, strength) ==
    Only({ Only({ Only({ <<(A - d2) % 256, clamp(B + d1, 0, 255), clamp(C - d1, 0, 255), (D + d2) % 256>>
        : d2 \in {clipd1(trunc_div(A - D, 4), trunc_div(d1, 2))} })
        : d1 \in {up_down_ramp(d, strength)} })
        : d \in {trunc_div(A - 4 * B + 4 * C - D, 8)} })

---------------------------------------------------------------------------
(* process on lines of four samples *)

\* u8
Samples == 0..255

\* debug_assert!((1..=12).contains(&strength))
Strengths == 1..12

\* The edges of tests::test_process, (0, 0, e, e)
Edges == {1, 2, 4, 6, 8, 10, 20, 100}

Lines == {<<x, y, y, x>> : x \in Samples, y \in Samples} \cup {<<0, 0, e, e>> : e \in Edges}

DeblockInit ==
    /\ decoder_options = new({}).decoder_options
    /\ last_picture = new({}).last_picture
    /\ reference_picture = new({}).reference_picture
    /\ running_options = new({}).running_options
    /\ reference_states = new({}).reference_states
    /\ source = from_source(<<>>).source
    /\ buffer = from_source(<<>>).buffer
    /\ bits_read = from_source(<<>>).bits_read
    /\ fed = 0
    /\ in_force = {}
    /\ \E line \in Lines : call = [op |-> "input", fn |-> "process", line |-> line]

Process ==
    /\ call.op = "input"
    /\ call.fn = "process"
    /\ \E strength \in Strengths :
          call' = [op |-> "process", fn |-> "process", line |-> call.line, strength |-> strength,
                   out |-> process(call.line[1], call.line[2], call.line[3], call.line[4], strength)]
    /\ UNCHANGED <<state_vars, source, buffer, bits_read, fed, in_force>>

DeblockNext == Process

DeblockSpec == DeblockInit /\ [][DeblockNext]_vars

---------------------------------------------------------------------------
(* deblock/src/deblock.rs: simd_impl, lane by lane *)

\* i16x8 >> k: the arithmetic shift of each lane
shr(x, k) == x \div Pow2(k)

\* cmp_lt and cmp_gt give -1 for true and 0 for false
signum_simd(x) == (IF x < 0 THEN -1 ELSE 0) - (IF x > 0 THEN -1 ELSE 0)

clamp_simd(x, min, max) == Min(Max(x, min), max)

up_down_ramp_simd(x, strength) ==
    signum_simd(x) * Max(abs(x) - Max(2 * (abs(x) - strength), 0), 0)

clipd1_simd(x, lim) == clamp_simd(x, -abs(lim), abs(lim))

\* One lane of process_simd: the four samples after the call
process_simd_lane(a16, b16, c16, d16, strength) ==
    Only({ Only({ Only({ <<(a16 - d2) % 256, clamp_simd(b16 + d1, 0, 255), clamp_simd(c16 - d1, 0, 255), (d16 + d2) % 256>>
        : d2 \in {clipd1_simd(shr(a16 - d16, 2), shr(d1, 1))} })
        : d1 \in {up_down_ramp_simd(d, strength)} })
        : d \in {shr(a16 - 4 * b16 + 4 * c16 - d16, 3)} })

\* process_simd: A, B, C, D are slices of eight samples; the slices after
\* the call, as <<A, B, C, D>>
process_simd(A, B, C, D, strength) ==
    Only({ <<[i \in 1..8 |-> res[i][1]], [i \in 1..8 |-> res[i][2]],
             [i \in 1..8 |-> res[i][3]], [i \in 1..8 |-> res[i][4]]>>
        : res \in {[i \in 1..8 |-> process_simd_lane(A[i], B[i], C[i], D[i], strength)]} })

---------------------------------------------------------------------------
(* process_simd on chunks of eight lines *)

\* Sample values of the lines: the ends and the middle of u8, and the small
\* steps of tests::test_process
SimdSamples == {0, 1, 2, 4, 10, 128, 254, 255}

\* Eight lines made of one: the line, the line reversed, the two with every
\* sample inverted, and the same with the samples of each block swapped
Chunk(l) ==
    <<l, <<l[4], l[3], l[2], l[1]>>,
      <<255 - l[1], 255 - l[2], 255 - l[3], 255 - l[4]>>,
      <<255 - l[4], 255 - l[3], 255 - l[2], 255 - l[1]>>,
      <<l[2], l[1], l[4], l[3]>>, <<l[3], l[4], l[1], l[2]>>,
      <<255 - l[2], 255 - l[1], 255 - l[4], 255 - l[3]>>,
      <<255 - l[3], 255 - l[4], 255 - l[1], 255 - l[2]>>>>

SimdInit ==
    /\ decoder_options = new({}).decoder_options
    /\ last_picture = new({}).last_picture
    /\ reference_picture = new({}).reference_picture
    /\ running_options = new({}).running_options
    /\ reference_states = new({}).reference_states
    /\ source = from_source(<<>>).source
    /\ buffer = from_source(<<>>).buffer
    /\ bits_read = from_source(<<>>).bits_read
    /\ fed = 0
    /\ in_force = {}
    /\ \E a \in SimdSamples, b \in SimdSamples, c \in SimdSamples, d \in SimdSamples :
          call = [op |-> "input", fn |-> "process_simd",
                  A |-> [i \in 1..8 |-> Chunk(<<a, b, c, d>>)[i][1]],
                  B |-> [i \in 1..8 |-> Chunk(<<a, b, c, d>>)[i][2]],
                  C |-> [i \in 1..8 |-> Chunk(<<a, b, c, d>>)[i][3]],
                  D |-> [i \in 1..8 |-> Chunk(<<a, b, c, d>>)[i][4]]]

ProcessSimd ==
    /\ call.op = "input"
    /\ call.fn = "process_simd"
    /\ \E strength \in Strengths :
          call' = [op |-> "process_simd", fn |-> "process_simd", A |-> call.A, B |-> call.B,
                   C |-> call.C, D |-> call.D, strength |-> strength,
                   out |-> process_simd(call.A, call.B, call.C, call.D, strength)]
    /\ UNCHANGED <<state_vars, source, buffer, bits_read, fed, in_force>>

SimdNext == ProcessSimd

SimdSpec == SimdInit /\ [][SimdNext]_vars

---------------------------------------------------------------------------
(* yuv/src/bt601.rs *)

\* f32::round of n / d for d > 0: to the nearest integer, halves away from
\* zero
round_div(n, d) ==
    IF n >= 0 THEN (2 * n + d) \div (2 * d) ELSE -((d - 2 * n) \div (2 * d))

\* LUTs::new, remap_luma: ((luma - 16) * (255 / 219) * 16).round()
remap_luma(luma) == round_div((luma - 16) * 255 * 16, 219)

\* LUTs::new, remap_chroma: (((chroma - 16) * (255 / 224) - 128) * coeff * 16)
\* .round(), with coeff given in millionths.  The value is
\* x * coeff / 14000000 for x = (chroma - 16) * 255 - 128 * 224; the product
\* is formed in two parts to stay within 32 bits.
remap_chroma(chroma, coeff) ==
    LET x == (chroma - 16) * 255 - 128 * 224
        P == abs(x) * (abs(coeff) \div 1000)
        Q == abs(x) * (abs(coeff) % 1000)
        magnitude == (P \div 14000) + round_div(1000 * (P % 14000) + Q, 14000000)
    IN signum(x) * signum(coeff) * magnitude

\* LUTS
LUTS ==
    [y_to_gray |-> [i \in 0..255 |-> remap_luma(i)],
     cr_to_r |-> [i \in 0..255 |-> remap_chroma(i, 1370705)],
     cr_to_g |-> [i \in 0..255 |-> remap_chroma(i, -698001)],
     cb_to_g |-> [i \in 0..255 |-> remap_chroma(i, -337633)],
     cb_to_b |-> [i \in 0..255 |-> remap_chroma(i, 1732446)]]

\* yuv_to_rgb: yuv is <<y, cb, cr>>
yuv_to_rgb(yuv, luts) ==
    <<clamp(shr(luts.y_to_gray[yuv[1]] + luts.cr_to_r[yuv[3]] + 8, 4), 0, 255),
      clamp(shr(luts.y_to_gray[yuv[1]] + luts.cr_to_g[yuv[3]] + luts.cb_to_g[yuv[2]] + 8, 4), 0, 255),
      clamp(shr(luts.y_to_gray[yuv[1]] + luts.cb_to_b[yuv[2]] + 8, 4), 0, 255)>>

lerp_chroma(a, b) ==
    <<a[1], ((a[2] + a[2] + a[2] + b[2] + 2) \div 4) % 256,
            ((a[3] + a[3] + a[3] + b[3] + 2) \div 4) % 256>>

bilerp_chroma_step1(a, b) == <<a[1], a[2] + a[2] + a[2] + b[2], a[3] + a[3] + a[3] + b[3]>>

bilerp_chroma_step2(a, b) ==
    <<a[1], ((a[2] + a[2] + a[2] + b[2] + 8) \div 16) % 256,
            ((a[3] + a[3] + a[3] + b[3] + 8) \div 16) % 256>>

\* The <<y, cb, cr>> of the luma sample at (col, row) taken with the chroma
\* sample at (br_col, br_row)
yuv_at(y, chroma_b, chroma_r, y_width, br_width, col, row, br_col, br_row) ==
    <<y[row * y_width + col + 1], chroma_b[br_row * br_width + br_col + 1],
      chroma_r[br_row * br_width + br_col + 1]>>

\* process_edge_col: the colour written to the pixel at (col, row), for col
\* the leftmost or the rightmost column
process_edge_col(y, chroma_b, chroma_r, y_width, br_width, col, row, luts) ==
    LET y_height == Len(y) \div y_width
        br_height == Len(chroma_b) \div br_width
        br_col == col \div 2
        br_y == (row - 1) \div 2
        top_yuv == yuv_at(y, chroma_b, chroma_r, y_width, br_width, col, 2 * br_y + 1, br_col, br_y)
        bottom_yuv == yuv_at(y, chroma_b, chroma_r, y_width, br_width, col, 2 * br_y + 2, br_col, br_y + 1)
    IN IF row = 0
       THEN yuv_to_rgb(yuv_at(y, chroma_b, chroma_r, y_width, br_width, col, 0, br_col, 0), luts)
       ELSE IF row = y_height - 1 /\ y_height % 2 = 0
       THEN yuv_to_rgb(yuv_at(y, chroma_b, chroma_r, y_width, br_width, col, row, br_col, br_height - 1), luts)
       ELSE IF row = 2 * br_y + 1
       THEN yuv_to_rgb(lerp_chroma(top_yuv, bottom_yuv), luts)
       ELSE yuv_to_rgb(lerp_chroma(bottom_yuv, top_yuv), luts)

\* process_edge_row: the colour written to the pixel at (col, row), for row
\* the top or the bottom row
process_edge_row(y, chroma_b, chroma_r, y_width, br_width, col, row, luts) ==
    LET br_row == row \div 2
        br_x == (col - 1) \div 2
        left == yuv_at(y, chroma_b, chroma_r, y_width, br_width, 2 * br_x + 1, row, br_x, br_row)
        right == yuv_at(y, chroma_b, chroma_r, y_width, br_width, 2 * br_x + 2, row, br_x + 1, br_row)
    IN IF col = 2 * br_x + 1
       THEN yuv_to_rgb(lerp_chroma(left, right), luts)
       ELSE yuv_to_rgb(lerp_chroma(right, left), luts)

\* yuv420_to_rgba, main loop: the colour written to the pixel at (col, row)
\* between two rows and two columns of chroma samples
bunch(y, chroma_b, chroma_r, y_width, br_width, col, row, luts) ==
    LET br_x == (col - 1) \div 2
        chroma_row == (row - 1) \div 2
        topleft == yuv_at(y, chroma_b, chroma_r, y_width, br_width, 2 * br_x + 1, 2 * chroma_row + 1, br_x, chroma_row)
        topright == yuv_at(y, chroma_b, chroma_r, y_width, br_width, 2 * br_x + 2, 2 * chroma_row + 1, br_x + 1, chroma_row)
        bottomleft == yuv_at(y, chroma_b, chroma_r, y_width, br_width, 2 * br_x + 1, 2 * chroma_row + 2, br_x, chroma_row + 1)
        bottomright == yuv_at(y, chroma_b, chroma_r, y_width, br_width, 2 * br_x + 2, 2 * chroma_row + 2, br_x + 1, chroma_row + 1)
        topleft_intermediate == bilerp_chroma_step1(topleft, topright)
        topright_intermediate == bilerp_chroma_step1(topright, topleft)
        bottomleft_intermediate == bilerp_chroma_step1(bottomleft, bottomright)
        bottomright_intermediate == bilerp_chroma_step1(bottomright, bottomleft)
        left == (col = 2 * br_x + 1)
        upper == (row = 2 * chroma_row + 1)
    IN IF upper /\ left
       THEN yuv_to_rgb(bilerp_chroma_step2(topleft_intermediate, bottomleft_intermediate), luts)
       ELSE IF upper
       THEN yuv_to_rgb(bilerp_chroma_step2(topright_intermediate, bottomright_intermediate), luts)
       ELSE IF left
       THEN yuv_to_rgb(bilerp_chroma_step2(bottomleft_intermediate, topleft_intermediate), luts)
       ELSE yuv_to_rgb(bilerp_chroma_step2(bottomright_intermediate, topright_intermediate), luts)

\* yuv420_to_rgba: the RGBA bytes returned.  Each pixel is written once by
\* the main loop or by process_edge_row, and the pixels of the outer columns
\* are written last by process_edge_col; the model gives each pixel the
\* value of its last write.
yuv420_to_rgba(y, chroma_b, chroma_r, y_width, br_width) ==
    IF y = <<>> THEN <<>>
    ELSE LET y_height == Len(y) \div y_width
             rgb(col, row) ==
                 IF col = 0 \/ (y_width % 2 = 0 /\ col = y_width - 1)
                 THEN process_edge_col(y, chroma_b, chroma_r, y_width, br_width, col, row, LUTS)
                 ELSE IF row = 0 \/ (y_height % 2 = 0 /\ row = y_height - 1)
                 THEN process_edge_row(y, chroma_b, chroma_r, y_width, br_width, col, row, LUTS)
                 ELSE bunch(y, chroma_b, chroma_r, y_width, br_width, col, row, LUTS)
             pixels == [p \in 0..(Len(y) - 1) |-> rgb(p % y_width, p \div y_width) \o <<255>>]
         IN [i \in 1..(4 * Len(y)) |-> pixels[(i - 1) \div 4][((i - 1) % 4) + 1]]

---------------------------------------------------------------------------
(* yuv420_to_rgba on small pictures *)

\* Width and height of the pictures, in luma samples
MaxSide == 4

\* Luma samples: black, white and mid-grey; chroma samples: the ends of the
\* range and the middle
LumaValues == {16, 128, 235}

ChromaValues == {16, 128, 240}

\* A plane of n samples, a and b alternating
Plane(n, a, b) == [i \in 1..n |-> IF i % 2 = 1 THEN a ELSE b]

YuvInit ==
    /\ decoder_options = new({}).decoder_options
    /\ last_picture = new({}).last_picture
    /\ reference_picture = new({}).reference_picture
    /\ running_options = new({}).running_options
    /\ reference_states = new({}).reference_states
    /\ source = from_source(<<>>).source
    /\ buffer = from_source(<<>>).buffer
    /\ bits_read = from_source(<<>>).bits_read
    /\ fed = 0
    /\ in_force = {}
    /\ \E y_width \in 1..MaxSide, y_height \in 1..MaxSide :
       \E luma \in LumaValues, cb \in ChromaValues, cb2 \in ChromaValues, cr \in ChromaValues :
          call = [op |-> "input", fn |-> "yuv420_to_rgba",
                  y |-> Plane(y_width * y_height, luma, luma),
                  chroma_b |-> Plane(((y_width + 1) \div 2) * ((y_height + 1) \div 2), cb, cb2),
                  chroma_r |-> Plane(((y_width + 1) \div 2) * ((y_height + 1) \div 2), cr, cr),
                  y_width |-> y_width, br_width |-> (y_width + 1) \div 2]

Yuv420ToRgba ==
    /\ call.op = "input"
    /\ call.fn = "yuv420_to_rgba"
    /\ call' = [call EXCEPT !.op = "yuv420_to_rgba"]
               @@ [rgba |-> yuv420_to_rgba(call.y, call.chroma_b, call.chroma_r,
                                            call.y_width, call.br_width)]
    /\ UNCHANGED <<state_vars, source, buffer, bits_read, fed, in_force>>

YuvNext == Yuv420ToRgba

YuvSpec == YuvInit /\ [][YuvNext]_vars

---------------------------------------------------------------------------
(* decoder/cpu/rle.rs *)

\* Fault variant of DEZIGZAG_MAPPING: the scan runs along the first row only.
DEZIGZAG_MAPPING_ROW == [i \in 1..64 |-> <<(i - 1) % 8, 0>>]

\* (x, y) for each scan index 0..63 (index i is element i + 1)
DEZIGZAG_MAPPING == <<
    <<0, 0>>, <<1, 0>>, <<0, 1>>, <<0, 2>>, <<1, 1>>, <<2, 0>>, <<3, 0>>, <<2, 1>>,
    <<1, 2>>, <<0, 3>>, <<0, 4>>, <<1, 3>>, <<2, 2>>, <<3, 1>>, <<4, 0>>, <<5, 0>>,
    <<4, 1>>, <<3, 2>>, <<2, 3>>, <<1, 4>>, <<0, 5>>, <<0, 6>>, <<1, 5>>, <<2, 4>>,
    <<3, 3>>, <<4, 2>>, <<5, 1>>, <<6, 0>>, <<7, 0>>, <<6, 1>>, <<5, 2>>, <<4, 3>>,
    <<3, 4>>, <<2, 5>>, <<1, 6>>, <<0, 7>>, <<1, 7>>, <<2, 6>>, <<3, 5>>, <<4, 4>>,
    <<5, 3>>, <<6, 2>>, <<7, 1>>, <<7, 2>>, <<6, 3>>, <<5, 4>>, <<4, 5>>, <<3, 6>>,
    <<2, 7>>, <<3, 7>>, <<4, 6>>, <<5, 5>>, <<6, 4>>, <<7, 3>>, <<7, 4>>, <<6, 5>>,
    <<5, 6>>, <<4, 7>>, <<5, 7>>, <<6, 6>>, <<7, 5>>, <<7, 6>>, <<6, 7>>, <<7, 7>>
>>

\* IntraDc::into_level
into_level(dc) == IF dc = 255 THEN 1024 ELSE dc * 8

\* DecodedDctBlock: <<"Zero">>, <<"Dc", v>>, <<"Horiz", row>>, <<"Vert", column>>,
\* <<"Full", block_data>>; block_data[y][x] with x, y in 0..7
ZeroData == [y \in 0..7 |-> [x \in 0..7 |-> 0]]

\* (tcoef.level.signum() * (dequantized_level + parity)).clamp(-2048, 2047)
dequantize(level, quant) ==
    clamp(signum(level) * ((quant * ((2 * abs(level)) + 1))
                           + (IF quant % 2 = 1 THEN 0 ELSE -1)), -2048, 2047)

\* The loop over encoded_block.tcoef from coefficient i on: None when the
\* scan index leaves the table and inverse_rle returns, else the block data
\* and the two flags after the last coefficient.
RECURSIVE rle_loop(_, _, _, _, _)
rle_loop(tcoef, i, zigzag_index, quant, st) ==
    IF i > Len(tcoef) THEN Some(st)
    ELSE IF zigzag_index + tcoef[i].run >= Len(DEZIGZAG_MAPPING) THEN None
    ELSE Only({ rle_loop(tcoef, i + 1, zigzag_index + tcoef[i].run + 1, quant,
                         [block_data |-> [st.block_data EXCEPT ![zig[2]][zig[1]] = val],
                          is_horiz |-> st.is_horiz /\ ~(val # 0 /\ zig[2] > 0),
                          is_vert |-> st.is_vert /\ ~(val # 0 /\ zig[1] > 0)])
                : zig \in {DEZIGZAG_MAPPING[zigzag_index + tcoef[i].run + 1]},
                  val \in {dequantize(tcoef[i].level, quant)} })

\* inverse_rle: the value of levels[block_id] after the call, block being
\* its value before (an early return leaves it as it was).
inverse_rle(encoded_block, block, quant) ==
    IF encoded_block.tcoef = <<>>
    THEN (IF encoded_block.intradc = None THEN <<"Zero">>
          ELSE IF into_level(encoded_block.intradc[1]) = 0 THEN <<"Zero">>
          ELSE <<"Dc", into_level(encoded_block.intradc[1])>>)
    ELSE Only({ IF r = None THEN block
                ELSE IF r[1].is_horiz /\ r[1].is_vert
                THEN (IF r[1].block_data[0][0] = 0 THEN <<"Zero">>
                      ELSE <<"Dc", r[1].block_data[0][0]>>)
                ELSE IF r[1].is_horiz THEN <<"Horiz", r[1].block_data[0]>>
                ELSE IF r[1].is_vert
                THEN <<"Vert", [y \in 0..7 |-> r[1].block_data[y][0]]>>
                ELSE <<"Full", r[1].block_data>>
                : r \in {rle_loop(encoded_block.tcoef, 1,
                                  IF encoded_block.intradc = None THEN 0 ELSE 1, quant,
                                  [block_data |->
                                      IF encoded_block.intradc = None THEN ZeroData
                                      ELSE [ZeroData EXCEPT ![0][0] =
                                               into_level(encoded_block.intradc[1])],
                                   is_horiz |-> TRUE, is_vert |-> TRUE])} })

---------------------------------------------------------------------------
(* inverse_rle on blocks as decode_block returns them *)

MaxCoefficients == 2
Runs == {0, 1, 63}
Levels == {-127, 1, 2}
IntraDcs == {None, Some(16), Some(255)}
Quants == {1, 2, 31}

RleInit ==
    /\ decoder_options = new({}).decoder_options
    /\ last_picture = new({}).last_picture
    /\ reference_picture = new({}).reference_picture
    /\ running_options = new({}).running_options
    /\ reference_states = new({}).reference_states
    /\ source = from_source(<<>>).source
    /\ buffer = from_source(<<>>).buffer
    /\ bits_read = from_source(<<>>).bits_read
    /\ fed = 0
    /\ in_force = {}
    /\ \E intradc \in IntraDcs : \E quant \in Quants :
       \E tcoef \in UNION {[1..n -> [run : Runs, level : Levels]] : n \in 0..MaxCoefficients} :
           call = [op |-> "input", encoded_block |-> [intradc |-> intradc, tcoef |-> tcoef],
                   quant |-> quant]

\* levels is zero-initialised before the macroblock loop.
InverseRle ==
    /\ call.op = "input"
    /\ call' = [op |-> "inverse_rle", encoded_block |-> call.encoded_block,
                quant |-> call.quant,
                block |-> inverse_rle(call.encoded_block, <<"Zero">>, call.quant)]
    /\ UNCHANGED <<state_vars, source, buffer, bits_read, fed, in_force>>

RleNext == InverseRle

RleSpec == RleInit /\ [][RleNext]_vars

---------------------------------------------------------------------------
(* The static tables walked entry by entry *)

VlcTables ==
    [MCBPC_I |-> MCBPC_I_TABLE, MCBPC_P |-> MCBPC_P_TABLE, CBPY |-> CBPY_TABLE_INTRA,
     MODB |-> MODB_TABLE, MVD |-> MVD_TABLE, TCOEF |-> TCOEF_TABLE]

\* table.get(index)
table_get(table, index) ==
    IF index >= 0 /\ index < Len(table) THEN Some(table[index + 1]) ELSE None

\* A walk of read_vlc is about to look at entry index of a table (read_vlc
\* itself starts at 0; the walks start at every entry, so that entries the
\* root does not lead to are walked as well), or inverse_rle is about to look
\* up a scan index.
TableInit ==
    /\ decoder_options = new({}).decoder_options
    /\ last_picture = new({}).last_picture
    /\ reference_picture = new({}).reference_picture
    /\ running_options = new({}).running_options
    /\ reference_states = new({}).reference_states
    /\ source = from_source(<<>>).source
    /\ buffer = from_source(<<>>).buffer
    /\ bits_read = from_source(<<>>).bits_read
    /\ fed = 0
    /\ in_force = {}
    /\ \/ \E t \in DOMAIN VlcTables :
          \E index \in 0..(Len(VlcTables[t]) - 1) :
             call = [op |-> "input", fn |-> "read_vlc", table |-> t, index |-> index,
                     err |-> "Ok"]
       \/ \E zigzag_index \in 0..(Len(DEZIGZAG_MAPPING) - 1) :
             call = [op |-> "input", fn |-> "dezigzag", index |-> zigzag_index]

\* One turn of the loop of read_vlc: the match on table.get(index), with the
\* bit read at a Fork as the input.
ReadVlcStep ==
    /\ call.op \in {"input", "fork"}
    /\ call.fn = "read_vlc"
    /\ \E entry \in {table_get(VlcTables[call.table], call.index)} :
          IF entry = None
          THEN call' = [call EXCEPT !.op = "read_vlc", !.err = "InternalDecoderError"]
          ELSE IF entry[1][1] = "End"
          THEN call' = [call EXCEPT !.op = "read_vlc"]
          ELSE \E next_bit \in {0, 1} :
                  call' = [call EXCEPT !.op = "fork",
                                       !.index = IF next_bit = 0 THEN entry[1][2]
                                                 ELSE entry[1][3]]
    /\ UNCHANGED <<state_vars, source, buffer, bits_read, fed, in_force>>

\* inverse_rle: let (zig_x, zig_y) = DEZIGZAG_MAPPING[zigzag_index]
Dezigzag ==
    /\ call.op = "input"
    /\ call.fn = "dezigzag"
    /\ call' = [op |-> "dezigzag", fn |-> "dezigzag", index |-> call.index,
                zig |-> DEZIGZAG_MAPPING[call.index + 1]]
    /\ UNCHANGED <<state_vars, source, buffer, bits_read, fed, in_force>>

TableNext ==
    \/ ReadVlcStep
    \/ Dezigzag

TableSpec == TableInit /\ [][TableNext]_vars

\* The loop of read_vlc keeps turning until it returns.
TableLiveSpec == TableSpec /\ WF_vars(ReadVlcStep)

---------------------------------------------------------------------------
(* read_bits called over and over on a reader until the source is used up *)

\* The bytes of tests::read_unaligned_bits and tests::read_u32, a five-byte
\* source, and every source of up to MaxInput bytes over InputBytes.
READ_UNALIGNED == <<255, 114, 28, 31>>
READ_U32 == <<254, 115, 80, 243>>
InputBytes == {114, 28, 255}
MaxInput == 2

BitsSources ==
    {READ_UNALIGNED, READ_U32, READ_UNALIGNED \o <<165>>}
    \cup UNION {[1..n -> InputBytes] : n \in 1..MaxInput}

\* read_bits::<u32>: every width the type holds
Widths == 1..32

\* The value v as a big-endian bit string of n bits; a negative v is the
\* word v + 2^32 (see shl_or)
ToBits(v, n) ==
    [i \in 1..n |->
        IF n - i = 31 THEN (IF v < 0 THEN 1 ELSE 0)
        ELSE Bit(IF v < 0 THEN v + Pow2(30) + Pow2(30) ELSE v, n - i)]

\* A bit string of whole bytes, as bytes
PackBytes(bits) ==
    [k \in 1..(Len(bits) \div 8) |->
        LET b(j) == bits[8 * (k - 1) + j]
        IN 128 * b(1) + 64 * b(2) + 32 * b(3) + 16 * b(4)
           + 8 * b(5) + 4 * b(6) + 2 * b(7) + b(8)]

BitsInit ==
    /\ decoder_options = new({}).decoder_options
    /\ last_picture = new({}).last_picture
    /\ reference_picture = new({}).reference_picture
    /\ running_options = new({}).running_options
    /\ reference_states = new({}).reference_states
    /\ \E bytes \in BitsSources : source = from_source(bytes).source
    /\ buffer = from_source(<<>>).buffer
    /\ bits_read = from_source(<<>>).bits_read
    /\ fed = 0
    /\ in_force = {}
    /\ call = [op |-> "new", out |-> <<>>]

\* One read_bits::<u32>(n); out collects the values read so far, each as a
\* bit string of its width.
ReadBits ==
    \E n \in Widths :
    \E r \in {read_bits(Reader, 32, n)} :
       /\ SetReader(r.rd)
       /\ call' = [op |-> "read_bits", width |-> n, err |-> r.err,
                   out |-> IF IsOk(r) THEN call.out \o ToBits(r.val, n) ELSE call.out]
       /\ UNCHANGED <<state_vars, fed, in_force>>

BitsNext == ReadBits

BitsSpec == BitsInit /\ [][BitsNext]_vars

---------------------------------------------------------------------------
(* decode_next_picture on one Sorenson Spark I picture of INTRA macroblocks *)

\* DQUANT as its two bits
DQuantBits(dq) ==
    CASE dq = -1 -> <<0, 0>> [] dq = -2 -> <<0, 1>> [] dq = 1 -> <<1, 0>> [] OTHER -> <<1, 1>>

\* INTRADC 0x10, one TCOEF (last, run 0, level 1), sign
BlockBits == <<0, 0, 0, 1, 0, 0, 0, 0>> \o <<0, 1, 1, 1>> \o <<0>>

SixBlocks == BlockBits \o BlockBits \o BlockBits \o BlockBits \o BlockBits \o BlockBits

\* A macroblock of an I picture: MCBPC (INTRA, or INTRA+Q when dq is not 0,
\* chroma not coded), CBPY, DQUANT when INTRA+Q, the six blocks
MacroblockBits(dq) ==
    IF dq = 0 THEN <<1>> \o <<1, 1>> \o SixBlocks
    ELSE <<0, 0, 0, 1>> \o <<1, 1>> \o DQuantBits(dq) \o SixBlocks

RECURSIVE MacroblocksBits(_)
MacroblocksBits(dqs) ==
    IF dqs = <<>> THEN <<>> ELSE MacroblockBits(Head(dqs)) \o MacroblocksBits(Tail(dqs))

PadToByte(bits) == bits \o [i \in 1..((8 - (Len(bits) % 8)) % 8) |-> 0]

\* The picture: start code, version 0, temporal reference 1, custom 8-bit
\* width and height (16 x 16), I picture, the quantiser, no deblocking, no
\* extra information, the macroblocks
IPicture(quantizer, dqs) ==
    PackBytes(PadToByte([i \in 1..16 |-> 0] \o <<1>> \o ToBits(0, 5) \o ToBits(1, 8)
                        \o <<0, 0, 0>> \o ToBits(16, 8) \o ToBits(16, 8) \o <<0, 0>>
                        \o ToBits(quantizer, 5) \o <<0>> \o MacroblocksBits(dqs)))

DQuants == {-2, -1, 1, 2}
Quantizers == 0..31
MaxMacroblocks == 2
MaxPlain == 9

\* The macroblocks of the picture, each as its DQUANT (0: INTRA without
\* DQUANT): every short sequence, and runs of INTRA macroblocks
MacroblockLists ==
    UNION {[1..n -> DQuants \cup {0}] : n \in 0..MaxMacroblocks}
    \cup {[i \in 1..n |-> 0] : n \in 0..MaxPlain}

LoopInit ==
    /\ decoder_options = new({SORENSON_SPARK_BITSTREAM}).decoder_options
    /\ last_picture = new({SORENSON_SPARK_BITSTREAM}).last_picture
    /\ reference_picture = new({SORENSON_SPARK_BITSTREAM}).reference_picture
    /\ running_options = new({SORENSON_SPARK_BITSTREAM}).running_options
    /\ reference_states = new({SORENSON_SPARK_BITSTREAM}).reference_states
    /\ \E quantizer \in Quantizers : \E dqs \in MacroblockLists :
           /\ source = from_source(IPicture(quantizer, dqs)).source
           /\ call = [op |-> "new", quantizer |-> quantizer, d_quantizers |-> dqs]
    /\ buffer = from_source(<<>>).buffer
    /\ bits_read = from_source(<<>>).bits_read
    /\ fed = 0
    /\ in_force = {}

LoopNext == DecodeNextPicture

LoopSpec == LoopInit /\ [][LoopNext]_vars

---------------------------------------------------------------------------
(* decode_block on blocks that end in an escape-coded coefficient *)

\* TCOEF escape code, LAST (0: last), RUN, LEVEL
EscapeBits(last, run, level) ==
    <<0, 0, 0, 0, 0, 1, 1>> \o <<last>> \o ToBits(run, 6) \o ToBits(level, 8)

\* n short coefficients (not last, run 0, level 1) with the given sign
RECURSIVE ShortBits(_, _)
ShortBits(n, sign) == IF n = 0 THEN <<>> ELSE <<1, 0, sign>> \o ShortBits(n - 1, sign)

\* The block, and after it a short last coefficient for the case where the
\* escape-coded one is not the last
EscapeBlock(intra, n, sign, last, run, level) ==
    PackBytes(PadToByte((IF intra THEN ToBits(16, 8) ELSE <<>>) \o ShortBits(n, sign)
                        \o EscapeBits(last, run, level) \o <<0, 1, 1, 1, 0>>))

MaxShort == 1
EscapeRuns == {0, 1, 63}
EscapeLevels == {0, 1, 127, 128, 129, 255}

BlockInit ==
    /\ decoder_options = new({}).decoder_options
    /\ last_picture = new({}).last_picture
    /\ reference_picture = new({}).reference_picture
    /\ running_options = new({}).running_options
    /\ reference_states = new({}).reference_states
    /\ \E intra \in BOOLEAN : \E n \in 0..MaxShort : \E sign \in 0..1 : \E last \in 0..1 :
       \E run \in EscapeRuns : \E level \in EscapeLevels :
           /\ source = from_source(EscapeBlock(intra, n, sign, last, run, level)).source
           /\ call = [op |-> "new", intra |-> intra, level |-> level]
    /\ buffer = from_source(<<>>).buffer
    /\ bits_read = from_source(<<>>).bits_read
    /\ fed = 0
    /\ in_force \in {{}, {"ModifiedQuantization"}}

BlockNext == DecodeBlock

BlockSpec == BlockInit /\ [][BlockNext]_vars

---------------------------------------------------------------------------
(* commit between reads, next to a reader that is never committed *)

CommitWidths == {1, 3, 8, 13}

\* call.shadow is a reader over the same source that receives every read
\* and peek but no commit.
CommitInit ==
    /\ decoder_options = new({}).decoder_options
    /\ last_picture = new({}).last_picture
    /\ reference_picture = new({}).reference_picture
    /\ running_options = new({}).running_options
    /\ reference_states = new({}).reference_states
    /\ \E bytes \in BitsSources :
           /\ source = from_source(bytes).source
           /\ call = [op |-> "new", shadow |-> from_source(bytes), commits |-> 0]
    /\ buffer = from_source(<<>>).buffer
    /\ bits_read = from_source(<<>>).bits_read
    /\ fed = 0
    /\ in_force = {}

CommitReadBits ==
    \E n \in CommitWidths :
    \E r \in {read_bits(Reader, 32, n)} :
    \E sh \in {read_bits(call.shadow, 32, n)} :
       /\ SetReader(r.rd)
       /\ call' = [op |-> "read_bits", err |-> r.err, val |-> r.val,
                   shadow_err |-> sh.err, shadow_val |-> sh.val, shadow |-> sh.rd,
                   commits |-> call.commits]
       /\ UNCHANGED <<state_vars, fed, in_force>>

CommitPeekBits ==
    \E n \in CommitWidths :
    \E r \in {peek_bits(Reader, 32, n)} :
    \E sh \in {peek_bits(call.shadow, 32, n)} :
       /\ SetReader(r.rd)
       /\ call' = [op |-> "peek_bits", err |-> r.err, val |-> r.val,
                   shadow_err |-> sh.err, shadow_val |-> sh.val, shadow |-> sh.rd,
                   commits |-> call.commits]
       /\ UNCHANGED <<state_vars, fed, in_force>>

\* commit drops bytes only when bits_read is 8 or more; commits counts these.
Commit ==
    /\ SetReader(commit(Reader))
    /\ call' = [op |-> "commit", shadow |-> call.shadow,
                commits |-> IF bits_read >= 8 THEN 1 ELSE call.commits,
                dropped |-> SubSeq(buffer, 1, Len(buffer) - Len(commit(Reader).buffer)),
                consumed |-> bits_read]
    /\ UNCHANGED <<state_vars, fed, in_force>>

CommitNext ==
    \/ CommitReadBits
    \/ CommitPeekBits
    \/ Commit

CommitSpec == CommitInit /\ [][CommitNext]_vars

---------------------------------------------------------------------------
(* The decoder over Sorenson Spark pictures that share temporal references *)

\* COD 0, MCBPC (INTER, chroma not coded), CBPY, MVD x and y (0), six blocks
\* of one TCOEF (last, run 0, level 1)
InterMacroblockBits ==
    <<0>> \o <<1>> \o <<1, 1>> \o <<1>> \o <<1>>
    \o <<0, 1, 1, 1, 0>> \o <<0, 1, 1, 1, 0>> \o <<0, 1, 1, 1, 0>>
    \o <<0, 1, 1, 1, 0>> \o <<0, 1, 1, 1, 0>> \o <<0, 1, 1, 1, 0>>

\* A 112 x 16 picture (seven macroblocks); picture_type 0: I (one INTRA
\* macroblock, then the end of the source), 1: P (an INTER and three uncoded
\* macroblocks), 2: disposable P (seven uncoded macroblocks)
SparkPicture(temporal_reference, picture_type) ==
    PackBytes(PadToByte([i \in 1..16 |-> 0] \o <<1>> \o ToBits(0, 5)
                        \o ToBits(temporal_reference, 8)
                        \o <<0, 0, 0>> \o ToBits(112, 8) \o ToBits(16, 8)
                        \o ToBits(picture_type, 2) \o ToBits(5, 5) \o <<0>>
                        \o (IF picture_type = 0 THEN MacroblockBits(0)
                            ELSE IF picture_type = 1
                            THEN InterMacroblockBits \o <<1, 1, 1>>
                            ELSE <<1, 1, 1, 1, 1, 1, 1>>)))

TemporalReferences == {1, 2}

ReuseInit ==
    /\ decoder_options = new({SORENSON_SPARK_BITSTREAM}).decoder_options
    /\ last_picture = new({SORENSON_SPARK_BITSTREAM}).last_picture
    /\ reference_picture = new({SORENSON_SPARK_BITSTREAM}).reference_picture
    /\ running_options = new({SORENSON_SPARK_BITSTREAM}).running_options
    /\ reference_states = new({SORENSON_SPARK_BITSTREAM}).reference_states
    /\ source = from_source(<<>>).source
    /\ buffer = from_source(<<>>).buffer
    /\ bits_read = from_source(<<>>).bits_read
    /\ fed = 0
    /\ in_force = {}
    /\ call = [op |-> "new"]

\* The byte source receives one more picture.
DeliverPicture ==
    /\ fed < MaxFeed
    /\ \E temporal_reference \in TemporalReferences : \E picture_type \in 0..2 :
           source' = source \o SparkPicture(temporal_reference, picture_type)
    /\ fed' = fed + 1
    /\ call' = [op |-> "deliver"]
    /\ UNCHANGED <<state_vars, buffer, bits_read, in_force>>

ReuseNext ==
    \/ DeliverPicture
    \/ DecodeNextPicture

ReuseSpec == ReuseInit /\ [][ReuseNext]_vars

---------------------------------------------------------------------------
(* Properties *)

KeysOf(option) == IF option = None THEN {} ELSE {option[1]}

DecodeReturned == call.op = "decode_next_picture"

\* C1: when decode_next_picture returns an error, last_picture,
\* reference_picture and the reference map are what they were before the call.
C1_ErrorLeavesStateUnchanged ==
    [][(call'.op = "decode_next_picture" /\ call'.err # "Ok")
       => UNCHANGED <<last_picture, reference_picture, reference_states>>]_vars

\* An error returned after the header was parsed, by a decoder that already
\* holds a picture.
C1_Witness ==
    /\ DecodeReturned
    /\ call.err # "Ok"
    /\ call.header # None
    /\ last_picture # None

\* C2: the reference map holds at most two entries, and its keys are exactly
\* the temporal references in last_picture and reference_picture.
C2_MapHoldsLastAndReference ==
    /\ Cardinality(DOMAIN reference_states) <= 2
    /\ DOMAIN reference_states = KeysOf(last_picture) \cup KeysOf(reference_picture)

\* A successful decode that left two entries in the map.
C2_Witness ==
    /\ DecodeReturned
    /\ call.err = "Ok"
    /\ Cardinality(DOMAIN reference_states) = 2

\* C3: when reference_picture is Some(k), get_reference_picture returns the
\* map entry keyed by k, and that entry is the reference handed to gather.
C3_ReferenceIsEntryOfReferenceKey ==
    [][/\ reference_picture # None
          => get_reference_picture(State) = get(reference_states, reference_picture[1])
       /\ (call'.op = "decode_next_picture" /\ call'.err = "Ok" /\ reference_picture # None)
          => call'.reference = get(reference_states, reference_picture[1])]_vars

\* C4: a decoded disposable picture sets last_picture to its temporal
\* reference and leaves reference_picture alone; any other decoded picture
\* sets both to its temporal reference.
C4_DisposableKeepsReference ==
    [][(call'.op = "decode_next_picture" /\ call'.err = "Ok")
       => LET h == call'.header[1]
          IN /\ last_picture' = Some(h.temporal_reference)
             /\ IF h.picture_type = "DisposablePFrame"
                THEN reference_picture' = reference_picture
                ELSE reference_picture' = Some(h.temporal_reference)]_vars

\* A disposable picture was decoded and the reference is still an earlier
\* picture.
C4_Witness ==
    /\ DecodeReturned
    /\ call.err = "Ok"
    /\ call.header[1].picture_type = "DisposablePFrame"
    /\ reference_picture # None
    /\ reference_picture # last_picture

\* C5: for a picture decoded after another, a header without OPPTYPE leaves
\* the OPPTYPE-class options in force as they were for the previous picture,
\* and a header without PLUSPTYPE leaves the MPPTYPE-class options so too.
C5_OptionsCarryForward ==
    [][(call'.op = "decode_next_picture" /\ call'.err = "Ok" /\ last_picture # None)
       => LET h == call'.header[1]
          IN /\ ~h.has_opptype
                => in_force' \cap OPPTYPE_OPTIONS = in_force \cap OPPTYPE_OPTIONS
             /\ ~h.has_plusptype
                => in_force' \cap MPPTYPE_OPTIONS = in_force \cap MPPTYPE_OPTIONS]_vars

Parsers ==
    {"decode_picture", "decode_gob", "decode_macroblock", "decode_block",
     "decode_next_picture"}

\* C6: a parser that returns an error leaves the reader's bit position where
\* it was on entry.
C6_ParserErrorRestoresPosition ==
    [][(call'.op \in Parsers /\ call'.err \notin {"Ok", "Panic"})
       => bits_read' = bits_read]_vars

\* decode_next_picture failed after it had read a whole picture header.
C6_Witness ==
    /\ DecodeReturned
    /\ call.err \notin {"Ok", "Panic"}
    /\ call.header # None

\* C7: with_transaction(f): if f returns Err the position is the one before
\* the call and the same error is returned; if f returns Ok the position is
\* the one f reached.
C7_TransactionRestoresOnErr ==
    [][call'.op = "with_transaction"
       => IF call'.f_err # "Ok"
          THEN bits_read' = bits_read /\ call'.err = call'.f_err
          ELSE bits_read' = call'.f_pos /\ call'.err = "Ok"]_vars

\* f read bits and then failed.
C7_Witness ==
    /\ call.op = "with_transaction"
    /\ call.f_err # "Ok"
    /\ call.f_pos # bits_read

\* C8: with_transaction_union(f) restores the position when f returns Err or
\* Ok(None) and keeps f's advance for Ok(Some); so when decode_picture
\* returns None the reader is still at the start code.
C8_UnionRestoresOnNone ==
    [][/\ call'.op = "with_transaction_union"
          => IF call'.f_err # "Ok" \/ call'.f_none
             THEN bits_read' = bits_read
             ELSE bits_read' = call'.f_pos
       /\ (call'.op = "decode_picture" /\ call'.none)
          => /\ bits_read' = bits_read
             /\ LET r == recognize_start_code(
                             [source |-> source', buffer |-> buffer',
                              bits_read |-> bits_read'], FALSE)
                IN IsOk(r) /\ r.val # None]_vars

\* decode_picture returned None: the start code was a GOB's.
C8_Witness ==
    /\ call.op = "decode_picture"
    /\ call.none

\* Bit i (from 0, most significant first) of a byte sequence
BitAt(bytes, i) == (bytes[(i \div 8) + 1] \div (2 ^ (7 - (i % 8)))) % 2

\* The 17-bit start code begins at bit pos of bytes.
StartCodeAt(bytes, pos) ==
    /\ pos + 17 <= 8 * Len(bytes)
    /\ \A i \in 0..15 : BitAt(bytes, pos + i) = 0
    /\ BitAt(bytes, pos + 16) = 1

\* C9: recognize_start_code(false) returns Some(k) only if the start code
\* begins exactly k bits ahead of the cursor and k does not exceed the bits
\* needed to reach the next byte boundary.
C9_StartCodeWithinRealignment ==
    [][(/\ call'.op = "recognize_start_code"
        /\ ~call'.in_error
        /\ call'.err = "Ok"
        /\ call'.val # None)
       => /\ StartCodeAt(buffer \o source, bits_read + call'.val[1])
          /\ call'.val[1] <= realignment_bits(Reader)]_vars

\* C10: recognize_start_code leaves the bit position unchanged, in either
\* mode and whatever it returns.
C10_RecognizeKeepsPosition ==
    [][call'.op = "recognize_start_code" => bits_read' = bits_read]_vars

\* A start code was found past stuffing bits, which the lookahead skipped.
C10_Witness ==
    /\ call.op = "recognize_start_code"
    /\ call.err = "Ok"
    /\ call.val # None
    /\ call.val[1] > 0

\* C11: recognize_start_code(true) never returns None: it returns the number
\* of bits before the first start code at or after the cursor, whatever the
\* distance and alignment, and fails only with the I/O error, and only when
\* no start code lies ahead in the input.
C11_ErrorModeFindsFirstStartCode ==
    [][(call'.op = "recognize_start_code" /\ call'.in_error)
       => /\ ~(call'.err = "Ok" /\ call'.val = None)
          /\ call'.err = "Ok"
             => /\ StartCodeAt(buffer \o source, bits_read + call'.val[1])
                /\ \A j \in 0..(call'.val[1] - 1) :
                       ~StartCodeAt(buffer \o source, bits_read + j)
          /\ call'.err # "Ok"
             => /\ call'.err = "Io"
                /\ \A j \in 0..(8 * Len(buffer \o source)) :
                       ~StartCodeAt(buffer \o source, bits_read + j)]_vars

\* The scan started at an unaligned cursor and went a byte or more ahead,
\* past the bits that realign the cursor.
C11_Witness ==
    /\ call.op = "recognize_start_code"
    /\ call.in_error
    /\ call.err = "Ok"
    /\ call.val # None
    /\ call.val[1] >= 8
    /\ call.val[1] > realignment_bits(Reader)
    /\ bits_read % 8 # 0

\* The 5-bit number that follows a start code beginning at bit pos
GobNumberAt(bytes, pos) ==
    LET b(i) == BitAt(bytes, pos + 17 + i)
    IN 16 * b(0) + 8 * b(1) + 4 * b(2) + 2 * b(3) + b(4)

\* A start code with its 5-bit number lies in bytes, k bits after bit pos.
HeaderAt(bytes, pos, k) ==
    /\ pos + k + 22 <= 8 * Len(bytes)
    /\ StartCodeAt(bytes, pos + k)

\* C12 as stated: decode_next_picture fails with MiddleOfBitstream whenever
\* no picture start code is found at the reader's position.  Checked where
\* the input holds 30 bits or more ahead of the cursor, so that a start code
\* within eight stuffing bits would be in sight.
C12_NoPictureStartCodeIsMiddleOfBitstream ==
    [][(/\ call'.op = "decode_next_picture"
        /\ 8 * Len(buffer \o source) - bits_read >= 30
        /\ ~\E k \in 0..8 :
              /\ HeaderAt(buffer \o source, bits_read, k)
              /\ \/ SORENSON_SPARK_BITSTREAM \in decoder_options
                 \/ GobNumberAt(buffer \o source, bits_read + k) = 0)
       => call'.err = "MiddleOfBitstream"]_vars

\* C12 amended: decode_next_picture fails with MiddleOfBitstream exactly when
\* the decoder is not in Sorenson mode and recognize_start_code(false) finds
\* a start code whose 5-bit GOB number is not zero; when it finds no start
\* code the call fails with InvalidBitstream.
C12_MiddleOfBitstreamIsGobStartCode ==
    [][call'.op = "decode_next_picture"
       => \E sc \in {recognize_start_code(Reader, FALSE)} :
             /\ call'.err = "MiddleOfBitstream"
                <=> /\ SORENSON_SPARK_BITSTREAM \notin decoder_options
                    /\ IsOk(sc)
                    /\ sc.val # None
                    /\ HeaderAt(buffer \o source, bits_read, sc.val[1])
                    /\ GobNumberAt(buffer \o source, bits_read + sc.val[1]) # 0
             /\ (IsOk(sc) /\ sc.val = None) => call'.err = "InvalidBitstream"]_vars

\* The call found a GOB's start code and failed with MiddleOfBitstream.
C12_Witness ==
    /\ DecodeReturned
    /\ call.err = "MiddleOfBitstream"
    /\ HeaderAt(buffer \o source, bits_read, 0)
    /\ GobNumberAt(buffer \o source, bits_read) # 0

\* C13: in Sorenson Spark mode decode_next_picture makes no decode_gob call
\* after a macroblock error, and an error of decode_macroblock other than the
\* end of input is the error the call fails with.
C13_SorensonNeverRecovers ==
    [][(/\ call'.op = "decode_next_picture"
        /\ SORENSON_SPARK_BITSTREAM \in decoder_options)
       => \A i \in DOMAIN call'.trace :
             /\ call'.trace[i][1] # "decode_gob"
             /\ (call'.trace[i][1] = "macroblock" /\ ~is_eof_error(call'.trace[i][2]))
                => call'.err = call'.trace[i][2]]_vars

\* A Sorenson picture whose macroblock data turned invalid: the call failed
\* with the macroblock's error.
C13_Witness ==
    /\ DecodeReturned
    /\ SORENSON_SPARK_BITSTREAM \in decoder_options
    /\ call.trace = <<<<"macroblock", "InvalidBitstream">>>>
    /\ call.err = "InvalidBitstream"

\* C14: once read_bits calls of widths in 1..32 have used up the whole
\* input, the values read, each written as a big-endian bit string of its
\* width and put end to end, are the input bytes; before that they are the
\* bits of the input up to the cursor.
C14_ReadBitsRoundTrip ==
    /\ Len(call.out) = bits_read
    /\ \A i \in 1..Len(call.out) : call.out[i] = BitAt(buffer \o source, i - 1)
    /\ bits_read = 8 * Len(buffer \o source) => PackBytes(call.out) = buffer \o source

\* A 23-bit read from an unaligned cursor used up the last of a source of
\* four bytes or more.
C14_Witness ==
    /\ call.op = "read_bits"
    /\ call.err = "Ok"
    /\ call.width = 23
    /\ Len(buffer \o source) >= 4
    /\ bits_read = 8 * Len(buffer \o source)

\* C15: the value halfpel_decode returns for an MVD component v and a
\* predictor p is v + p or v.invert() + p, and lies in [-r, r) for the
\* component range r of the picture.
C15_DecodedVectorWithinRange ==
    call.op = "halfpel_decode"
    => /\ call.out \in {call.mvd + call.predictor, invert(call.mvd) + call.predictor}
       /\ is_mv_within_range(call.out,
                             SelectedRange(call.picture, call.running_options,
                                           call.predictor, call.is_x))

\* C16 as stated: average_sum_of_mvs(4 v) = v for every half-pel value v.
C16_AverageOfFourIsTheVector ==
    call.op = "average_sum_of_mvs" => call.out = call.v

\* C16 amended: average_sum_of_mvs(4 v) is v halved for the chrominance
\* planes, 2 * floor(v / 4), plus one half-pel step unless v is a multiple of
\* four; it equals v only for v in {-1, 0, 1}.
C16_AverageOfFourIsHalfTheVector ==
    call.op = "average_sum_of_mvs"
    => /\ call.out = 2 * (call.v \div 4) + (IF call.v % 4 = 0 THEN 0 ELSE 1)
       /\ call.out = call.v <=> call.v \in {-1, 0, 1}

\* A negative vector off the full-pel grid was averaged.
C16_Witness ==
    /\ call.op = "average_sum_of_mvs"
    /\ call.v < -1
    /\ call.v % 4 # 0
    /\ call.out # call.v

\* C17: in each static VLC table every Fork index lies inside the table and
\* there is no cycle: a walk of read_vlc, from whatever entry and with
\* whatever bits, never fails with InternalDecoderError and reaches an End
\* entry after finitely many bits.
C17_VlcWalksEnd ==
    /\ [](call.op = "read_vlc" => call.err = "Ok")
    /\ call.fn = "read_vlc" ~> call.op = "read_vlc"

\* A walk of the TCOEF table returned at an End entry the root leads to
\* through Forks.
C17_Witness ==
    /\ call.op = "read_vlc"
    /\ call.table = "TCOEF"
    /\ call.err = "Ok"
    /\ call.index > 100

\* C18: the dezig-zag table maps the scan indices 0..63 one-to-one onto the
\* 64 positions (x, y) of an 8x8 block.
C18_DezigzagIsBijection ==
    /\ Len(DEZIGZAG_MAPPING) = 64
    /\ call.op = "dezigzag"
       => /\ call.zig \in (0..7) \X (0..7)
          /\ \A j \in 0..63 : j # call.index => DEZIGZAG_MAPPING[j + 1] # call.zig
    /\ \A pos \in (0..7) \X (0..7) : \E i \in 0..63 : DEZIGZAG_MAPPING[i + 1] = pos

\* The last scan index was looked up: the bottom right corner.
C18_Witness ==
    /\ call.op = "dezigzag"
    /\ call.index = 63
    /\ call.zig = <<7, 7>>

\* C19: every sample gather_block reads from the reference plane is read at
\* the coordinates asked for, each clamped to the plane: column to
\* 0..width-1, row to 0..height-1; the index read lies in the plane and in
\* the clamped row.
C19_ReadsAreClampedToPlane ==
    call.op = "gather_block"
    => LET width == call.samples_per_row
           height == call.array_len \div call.samples_per_row
       IN \A r \in call.reads :
             LET x == Max(0, Min(width - 1, r.u))
                 y == Max(0, Min(height - 1, r.v))
             IN /\ r.index = x + y * width
                /\ r.index \in 0..(call.array_len - 1)
                /\ r.index \div width = y
                /\ r.index % width = x

\* A half-pel vector took every sample of the block from beyond the right
\* and bottom edges.
C19_Witness ==
    /\ call.op = "gather_block"
    /\ call.mv[1] % 2 = 1
    /\ call.mv[2] % 2 = 1
    /\ call.reads # {}
    /\ \A r \in call.reads :
          /\ r.u >= call.samples_per_row
          /\ r.v >= call.array_len \div call.samples_per_row

\* C20: process leaves a symmetric line (x, y, y, x) as it is, for every
\* x and y in 0..255 and every strength in 1..12.
C20_SymmetricLineUnchanged ==
    (call.op = "process" /\ call.line[1] = call.line[4] /\ call.line[2] = call.line[3])
    => call.out = call.line

\* The steepest hill, filtered at the greatest strength.
C20_Witness ==
    /\ call.op = "process"
    /\ call.line = <<0, 255, 255, 0>>
    /\ call.strength = 12
    /\ call.out = <<0, 255, 255, 0>>

\* C21: each lane of process_simd yields the four samples that process
\* yields for the lane's inputs, for every strength in 1..12.
C21_SimdEqualsScalar ==
    call.op = "process_simd"
    => \A i \in 1..8 :
          <<call.out[1][i], call.out[2][i], call.out[3][i], call.out[4][i]>>
             = process(call.A[i], call.B[i], call.C[i], call.D[i], call.strength)

\* C22: yuv420_to_rgba maps a picture with every sample Y = 16, Cb = Cr = 128
\* to (0, 0, 0, 255) in every pixel, and one with every sample Y = 235,
\* Cb = Cr = 128 to (255, 255, 255, 255) in every pixel.
C22_BlackAndWhite ==
    (/\ call.op = "yuv420_to_rgba"
     /\ \A i \in DOMAIN call.chroma_b : call.chroma_b[i] = 128 /\ call.chroma_r[i] = 128)
    => /\ (\A i \in DOMAIN call.y : call.y[i] = 16)
          => \A i \in DOMAIN call.rgba : call.rgba[i] = (IF i % 4 = 0 THEN 255 ELSE 0)
       /\ (\A i \in DOMAIN call.y : call.y[i] = 235)
          => \A i \in DOMAIN call.rgba : call.rgba[i] = 255

C24_ExhaustedSourceCommitsNothing ==
    [][(/\ call'.op = "decode_next_picture"
        /\ call'.header # None
        /\ \/ is_eof_error(call'.err)
           \/ /\ call'.macroblocks < call'.capacity
              /\ \E i \in DOMAIN call'.trace :
                    call'.trace[i][1] = "macroblock" /\ is_eof_error(call'.trace[i][2]))
       => /\ call'.err # "Ok"
          /\ UNCHANGED <<last_picture, reference_picture, reference_states>>
          /\ bits_read' = bits_read]_vars

\* The quantiser in force for macroblock m (1-based) of a picture whose
\* header carries quantizer and whose macroblocks carry d_quantizers
RECURSIVE RunningQuantizer(_, _, _)
RunningQuantizer(quantizer, d_quantizers, m) ==
    IF m = 0 THEN quantizer
    ELSE Max(1, Min(31, RunningQuantizer(quantizer, d_quantizers, m - 1) + d_quantizers[m]))

\* C25: the quantiser given to inverse_rle for every block lies in 1..31:
\* whatever the header quantiser (0..31) and the DQUANT values of the
\* macroblocks, the blocks of a macroblock are dequantised with the running
\* quantiser after that macroblock's DQUANT was applied and clamped to 1..31.
C25_QuantizerClampedBeforeBlocks ==
    [][(call.op = "new" /\ call'.op = "decode_next_picture")
       => \A i \in 1..Len(call'.levels) :
             /\ call'.levels[i].quant \in 1..31
             /\ call'.levels[i].quant
                = RunningQuantizer(call.quantizer, call.d_quantizers, ((i - 1) \div 6) + 1)]_vars

\* A picture with header quantiser 31 whose two macroblocks carry DQUANT +2
\* and -1 was decoded: the blocks used 31 and 30.
C25_Witness ==
    /\ call.op = "decode_next_picture"
    /\ call.err = "Ok"
    /\ call.header # None
    /\ call.header[1].quantizer = 31
    /\ Len(call.levels) = 12
    /\ call.levels[1].quant = 31
    /\ call.levels[12].quant = 30

\* C27: the macroblocks recorded for a picture never exceed
\* mb_per_line * mb_height, and every inverse_rle call indexes inside the
\* level buffer of its plane.
C27_MacroblocksFitThePicture ==
    call.op = "decode_next_picture"
    => /\ call.macroblocks <= call.capacity
       /\ call.err # "Panic"
       /\ \A i \in 1..Len(call.levels) : call.levels[i].block_id < call.levels[i].levels_len

\* The escape-coded coefficients of a block
EscapeCoded(block) == {i \in 1..Len(block.tcoef) : ~block.tcoef[i].is_short}

\* C26: decode_block returns no block with an escape-coded coefficient of
\* level 0 or 0x80 (-128 as i8): a block whose escape-coded coefficient has
\* level 0 fails with InvalidBitstream; one with level 0x80 fails with
\* UnimplementedDecoding when modified quantisation is in force and with
\* InvalidBitstream otherwise.
C26_EscapeLevelsRefused ==
    [][call'.op = "decode_block"
       => /\ call'.err = "Ok"
             => \A i \in EscapeCoded(call'.val) : call'.val.tcoef[i].level \notin {0, -128}
          /\ (call.op = "new" /\ call.intra = (call'.macroblock_type = "Intra"))
             => /\ call.level = 0 => call'.err = "InvalidBitstream"
                /\ call.level = 128
                   => call'.err = (IF "ModifiedQuantization" \in in_force
                                   THEN "UnimplementedDecoding" ELSE "InvalidBitstream")
                /\ call.level \notin {0, 128}
                   => call'.err = "Ok" /\ EscapeCoded(call'.val) # {}]_vars

\* decode_block refused a block with an escape-coded level 0x80 as
\* unimplemented, modified quantisation being in force.
C26_Witness ==
    /\ call.op = "decode_block"
    /\ call.err = "UnimplementedDecoding"
    /\ "ModifiedQuantization" \in in_force
    /\ call.macroblock_type = "Intra"
    /\ bits_read = 0

\* The bits of the buffer from the cursor on
UnreadBits(rd) ==
    [i \in 1..(8 * Len(rd.buffer) - rd.bits_read) |->
        BitAt(rd.buffer, rd.bits_read + i - 1)]

\* C29: commit discards only wholly consumed bytes and leaves bits_read
\* below 8, and every read or peek after it returns what it returns on a
\* reader over the same source that was never committed.
C29_CommitKeepsUnreadBits ==
    /\ call.op = "commit"
       => /\ bits_read < 8
          /\ Len(call.dropped) * 8 <= call.consumed
          /\ call.consumed = Len(call.dropped) * 8 + bits_read
    /\ call.op \in {"read_bits", "peek_bits"}
       => /\ call.err = call.shadow_err
          /\ call.val = call.shadow_val
    /\ call.op \in {"commit", "read_bits", "peek_bits"}
       => /\ source = call.shadow.source
          /\ UnreadBits(Reader) = UnreadBits(call.shadow)

\* A read succeeded on a reader whose commit had dropped bytes.
C29_Witness ==
    /\ call.op = "read_bits"
    /\ call.err = "Ok"
    /\ call.commits > 0
    /\ Len(buffer) < Len(call.shadow.buffer)
    /\ bits_read % 8 # 0

\* C28: when reference_picture is Some(k), the picture stored under k is not
\* disposable, also when pictures share a temporal reference.
C28_ReferenceKeyNamesReference ==
    reference_picture # None
    => /\ reference_picture[1] \in DOMAIN reference_states
       /\ ~is_disposable(as_header(reference_states[reference_picture[1]]).picture_type)

\* A DecodedDctBlock as the 8 x 8 coefficients it stands for
Coefficients(block) ==
    [y \in 0..7 |-> [x \in 0..7 |->
        CASE block[1] = "Zero" -> 0
          [] block[1] = "Dc" -> IF x = 0 /\ y = 0 THEN block[2] ELSE 0
          [] block[1] = "Horiz" -> IF y = 0 THEN block[2][x] ELSE 0
          [] block[1] = "Vert" -> IF x = 0 THEN block[2][y] ELSE 0
          [] OTHER -> block[2][y][x]]]

\* The scan index of coefficient i: the start, the runs up to and including
\* its own, and one for each coefficient before it
RECURSIVE ScanIndex(_, _)
ScanIndex(encoded_block, i) ==
    IF i = 0 THEN (IF encoded_block.intradc = None THEN -1 ELSE 0)
    ELSE ScanIndex(encoded_block, i - 1) + 1 + encoded_block.tcoef[i].run

\* C30: the block inverse_rle emits holds the INTRADC level at (0, 0), each
\* coefficient whose scan index is below 64 dequantised at its dezig-zag
\* position, and zero everywhere else, also when a later coefficient's run
\* takes the scan index to 64 or beyond.
C30_CoefficientsBelow64Placed ==
    call.op = "inverse_rle"
    => \A y \in 0..7 : \A x \in 0..7 :
          Coefficients(call.block)[y][x]
          = IF \E i \in 1..Len(call.encoded_block.tcoef) :
                  /\ ScanIndex(call.encoded_block, i) < 64
                  /\ DEZIGZAG_MAPPING[ScanIndex(call.encoded_block, i) + 1] = <<x, y>>
            THEN LET i == CHOOSE i \in 1..Len(call.encoded_block.tcoef) :
                             /\ ScanIndex(call.encoded_block, i) < 64
                             /\ DEZIGZAG_MAPPING[ScanIndex(call.encoded_block, i) + 1] = <<x, y>>
                     level == call.encoded_block.tcoef[i].level
                     magnitude == (call.quant * ((2 * (IF level < 0 THEN -level ELSE level)) + 1))
                                  - (IF call.quant % 2 = 1 THEN 0 ELSE 1)
                 IN Max(-2048, Min(2047, IF level < 0 THEN -magnitude ELSE magnitude))
            ELSE IF x = 0 /\ y = 0 /\ call.encoded_block.intradc # None
            THEN into_level(call.encoded_block.intradc[1])
            ELSE 0

===========================================================================
